---- MODULE Spec2Model ----
\* L-Spider: the dispatcher (master.py), the DHT announce handler and the
\* bootstrap store (dht.py) and the metadata fetch (bt_metadata.py) as a state
\* machine.  Time is the value of time.time(), in seconds; the clock moves in
\* the steps that read it.
EXTENDS Integers, Sequences, FiniteSets, Bags, TLC

\* ------------------------------------------------------------------ bounds
PoolSize == 2         \* Master(max_workers=...) in Spec: the CLI's -t value
SmallPool == 1        \* Master(max_workers=...) in the other specifications
hint_k == 1           \* Master.hint_k, scaled down from 5
SeenLimit == 2        \* the flush threshold of Master.seen, scaled down from 60000
StoreCap == 2         \* max_peers of both stores, scaled down from 1000 and 5000
MaxCalls == 2         \* log_infohash calls in Spec
EnqueueCalls == 4     \* log_infohash calls in SpecEnqueue
QuarantineCalls == 5  \* log_infohash calls in SpecQuarantine
MaxRx == 2            \* datagrams received in SpecDht (DHTProcess.rx)
TimeStep == 150       \* seconds between two readings of the clock, when not 0
MaxNow == 300         \* last clock value
FetchTimeout == 2     \* download_metadata(timeout=6), in ticks of 3 seconds
MaxRequests == 3      \* piece requests followed in one fetch
BootCalls == 1        \* DHTBootstrapStore.mark_ok calls in SpecStores
StoreCalls == 2       \* log_infohash calls in SpecStores
SampleCap == 6        \* max_peers of both stores in SpecSample
MaxK == 2             \* largest k given to sample and sample_previous
MaxRuns == 3          \* runs of the program in SpecReload and SpecLoad
ReloadCalls == 1      \* MetadataPeerStore.mark_ok calls in one run
MaxRejoins == 3       \* runs of re_join_dht followed
max_node_qsize == 2   \* DHTProcess.max_node_qsize, scaled down from 200
bootstrap_extra_k == 1  \* DHTProcess(bootstrap_extra_k), scaled down from 50
ttl_seconds == 200    \* ttl_seconds of both stores, scaled down from 72 * 3600

\* ------------------------------------------------------- program constants
bad_ttl == 300
fail_window == 180
fail_threshold == 3
InfohashLen == 20
token_length == 2
NeighborEnd == 10
MinPort == 1
MaxPort == 65535
BT_MSG_ID == 20
EXT_HANDSHAKE_ID == 0
MinPacket == 6
PieceLen == 16384
MaxPieces == 4096
MaxMsgLen == 2000000
CompactLen == 26
ErrorCode == 202
BootstrapPort == 6881

\* ------------------------------------------------------------- input values
\* Byte strings are sequences of 0..255.
H1 == [i \in 1..20 |-> 1]
H2 == [i \in 1..20 |-> IF i <= 2 THEN 1 ELSE 171]
H3 == [i \in 1..20 |-> 3]
HShort == <<1, 1>>
Infohashes == {H1, H2, H3}

A1 == <<"1.2.3.4", 6881>>
A2 == <<"1.2.3.4", 55555>>
A3 == <<"5.6.7.8", 6881>>
EmptyAddr == <<>>

\* KRPC announce_peer queries after bdecode and to_str.  A key of the
\* message is absent (<<>>) or present with one value (<<v>>); a.id is a
\* byte string, an integer, or absent.
Nid == [i \in 1..20 |-> 9]
PeerId == [i \in 1..20 |-> 7]
Tid == <<97, 97>>
Token == <<1, 1>>
WrongToken == <<2, 2>>
Ids == {[kind |-> "absent", val |-> <<>>], [kind |-> "bytes", val |-> PeerId],
        [kind |-> "int", val |-> <<>>]}
Messages ==
  [t : {<<>>, <<Tid>>},
   a : [id : Ids,
        info_hash : {H1, HShort},
        token : {<<>>, <<Token>>, <<WrongToken>>},
        implied_port : {<<>>, <<0>>, <<1>>},
        port : {<<>>, <<0>>, <<A1[2]>>, <<65536>>}]]
Sources == {A1, A2}

\* dht_spider.py: the ip the node binds, and BOOTSTRAP_NODES
SelfIp == "0.0.0.0"
BOOTSTRAP_NODES == <<<<"router.bittorrent.com", BootstrapPort>>,
                     <<"dht.transmissionbt.com", BootstrapPort>>,
                     <<"router.utorrent.com", BootstrapPort>>>>

\* Compact node info: 20 bytes of id, 4 of address, 2 of port (big-endian)
Compact(id, ip4, port) == id \o ip4 \o <<port \div 256, port % 256>>

N1 == Compact(H2, <<5, 6, 7, 8>>, 6881)
N2 == Compact(H3, <<5, 6, 7, 8>>, 55555)
N3 == Compact(PeerId, <<9, 9, 9, 9>>, 1)
NPortZero == Compact(H1, <<5, 6, 7, 8>>, 0)
NSelfIp == Compact(H1, <<0, 0, 0, 0>>, 6881)

\* r of a response: absent, a dictionary without nodes, nodes that is not a
\* byte string, or nodes with these bytes
NoR == [kind |-> "absent", raw |-> <<>>]
NoNodes == [kind |-> "no_nodes", raw |-> <<>>]
IntNodes == [kind |-> "int", raw |-> <<>>]
RawNodes(raw) == [kind |-> "nodes", raw |-> raw]
Responses ==
  [t : {<<>>, <<Tid>>},
   r : {NoR, NoNodes, IntNodes} \cup
       {RawNodes(raw) : raw \in {<<>>, N1, N1 \o <<0>>, N1 \o N2 \o N3,
                                 NPortZero \o N2, NSelfIp \o N3}}]

\* Queries the node has no handler for; q can be missing
Queries == [t : {<<>>, <<Tid>>}, q : {<<>>, <<"ping">>, <<"find_node">>}]

\* Datagrams run throws away before on_message: a first byte that starts no
\* bencoded value, bytes bdecode refuses, and a dictionary without y
Dropped == {"first_byte", "undecodable", "no_y"}

Results == {"ok", "handshake_fail", "ext_fail", "bad_pieces", "no_pieces",
            "sha1_mismatch", "timeout", "os_error", "exception"}

VARIABLES
  clock,        \* the last value time.time() returned
  queue,        \* Master.queue: FIFO of <<address, infohash>>
  seen,         \* Master.seen: set of <<hex, ip, port>>
  max_workers,  \* Master(max_workers): the initial value of Master.sem
  sem,          \* Master.sem: free slots of the BoundedSemaphore
  bad,          \* Master.bad: address -> expires_at
  fail_counts,  \* Master.fail_counts: address -> <<count, until>>
  ok_count,     \* Master.ok_count
  fail_count,   \* Master.fail_count
  peers,        \* Master.peer_store._peers: sequence of <<ip, port, ts>>
  peers_file,   \* state/metadata_peers.jsonl: sequence of appended records
  run_pc,       \* Master.run: "get" | "acquire" | "start"
  run_item,     \* the <<address, infohash>> Master.run holds
  workers,      \* the live _worker threads: a bag of their frames
  call,         \* the frame of the current / last log_infohash call
  calls,        \* number of log_infohash calls made
  enq,          \* history: the last _enqueue_once call
  accepts,      \* history: key -> true returns since seen was last emptied
  flush_key,    \* history: the key whose insertion emptied seen last
  fail_hist,    \* history: address -> times its failures were recorded
  last_mark,    \* history: address -> last time _mark_bad was called for it
  last_move,    \* history: address -> last time it went from not bad to bad
  ended,        \* history: the kinds of result workers have ended with
  finished,     \* history: how many workers have ended, by kind of result
  fifo,         \* history, kept when fifo.on: the items pushed, the items
                \* started and the items whose worker ended, in order
  nid,          \* DHTProcess.nid
  rx,           \* DHTProcess.rx: datagrams received
  tx,           \* DHTProcess.tx: datagrams sent
  dht_pc,       \* where the DHT receive thread is: "recv" or "announce"
  dht_msg,      \* the message being handled (the last one, once handled)
  dht_src,      \* the address it came from
  dht_cands,    \* on_announce_peer_request: candidates not yet passed on
  passed,       \* history: log_infohash calls made for dht_msg
  sent,         \* history: <<reply, address>> sent for dht_msg
  gp_sent,      \* history: <<reply, address>> sent for the last get_peers
  issued,       \* history: the <<infohash, token>> of the get_peers replies
  f_pc,         \* download_metadata: where the fetch is
  f_sock,       \* the_socket: "none", "open" or "closed"
  f_result,     \* the status download_metadata returned, "" before
  f_err,        \* history: what raised in the try body, "" when nothing did
  f_ext,        \* the extension handshake the peer answered with
  f_ut,         \* ut_metadata as parse_ext_handshake returned it
  f_size,       \* metadata_size as parse_ext_handshake returned it
  f_pieces,     \* pieces
  f_piece,      \* the loop variable piece
  f_reqs,       \* history: the piece indices requested, in order
  f_any,        \* metadata_parts is not empty
  f_exact,      \* metadata_parts holds exactly the pieces 0..piece-1
  f_sha,        \* history: "" or how the SHA-1 comparison ended
  f_stored,     \* history: calls of storage_info_fn
  f_saved,      \* history: calls of storage_info_fn that returned
  r_idle,       \* recvall: now - begin, in ticks
  r_age,        \* history: ticks since recvall started, up to AgeCap
  r_total,      \* recvall: total is not empty
  boot_peers,   \* DHTBootstrapStore._peers, in the dict's order: <<ip, port, ts>>
  boot_file,    \* state/dht_bootstrap.jsonl: sequence of appended records
  max_peers,    \* MetadataPeerStore.max_peers
  boot_max_peers,  \* DHTBootstrapStore.max_peers
  nodes,        \* DHTProcess.nodes: the deque of KNodes, oldest first
  timers,       \* threading.Timer objects pending for re_join_dht
  started,      \* DHTProcess.run has begun
  bootstrap_extra,  \* DHTProcess.bootstrap_extra
  find_sent,    \* history: the find_node queries the last step sent
  asked,        \* history: every address a find_node was sent to
  rejoins,      \* history: how many times re_join_dht has run
  dg,           \* history: the last datagram on_message handled alone
  m_runs,       \* history: metadata_peers.jsonl as each start found it, and when
  b_runs,       \* history: dht_bootstrap.jsonl as each start found it, and when
  smp,          \* history: the last call of sample or sample_previous
  infos,        \* dht_spider.infos: the hash ids storage_info has handled
  log_file,     \* the magnets log: the hash id of every block written
  torrents,     \* BT/: the hash id of every .torrent write
  st,           \* the threads inside storage_info: pc, hash_id, flag
  opts,         \* the options: path is "-s", save_seed
  locks,        \* fail_lock, bad_lock, peer_store._lock: the holder or ""
  lk            \* per thread: the lock operations left of the call it is in

master_vars == <<clock, queue, seen, max_workers, sem, bad, fail_counts, ok_count,
                 fail_count, peers, peers_file, run_pc, run_item, workers,
                 call, calls, enq, accepts, flush_key, fail_hist, last_mark,
                 last_move, ended, finished, fifo>>

dht_vars == <<nid, rx, tx, dht_pc, dht_msg, dht_src, dht_cands, passed, sent,
              gp_sent, issued>>

fetch_vars == <<f_pc, f_sock, f_result, f_err, f_ext, f_ut, f_size, f_pieces,
                f_piece, f_reqs, f_any, f_exact, f_sha, f_stored, f_saved,
                r_idle, r_age, r_total>>

boot_vars == <<boot_peers, boot_file>>

storage_vars == <<infos, log_file, torrents, st, opts>>

lock_vars == <<locks, lk>>

node_vars == <<max_peers, boot_max_peers, nodes, timers, started,
               bootstrap_extra, find_sent, asked, rejoins, dg, m_runs,
               b_runs, smp>>

vars == <<master_vars, dht_vars, fetch_vars, storage_vars, lock_vars, boot_vars, node_vars>>

\* What a step of one component leaves alone
beside_master == <<dht_vars, fetch_vars, storage_vars, lock_vars, boot_vars, node_vars>>
beside_dht == <<fetch_vars, storage_vars, lock_vars, boot_vars, node_vars>>
beside_fetch == <<master_vars, dht_vars, boot_vars, node_vars, storage_vars, lock_vars>>
beside_storage == <<master_vars, dht_vars, fetch_vars, boot_vars, node_vars,
                    lock_vars>>
beside_locks == <<master_vars, dht_vars, fetch_vars, storage_vars, boot_vars,
                  node_vars>>
beside_boot == <<master_vars, dht_vars, fetch_vars, storage_vars, lock_vars, node_vars>>

\* r_age is followed up to here
AgeCap == 2 * FetchTimeout + 2

\* ------------------------------------------------------------------ helpers
Min(a, b) == IF a < b THEN a ELSE b

Get(f, k, d) == IF k \in DOMAIN f THEN f[k] ELSE d

Put(f, k, v) == [x \in DOMAIN f \cup {k} |-> IF x = k THEN v ELSE f[x]]

Del(f, k) == [x \in DOMAIN f \ {k} |-> f[x]]

\* The values time.time() can return next
Readings(delays) == {clock + d : d \in {x \in delays : clock + x <= MaxNow}}

HexDigits == <<"0", "1", "2", "3", "4", "5", "6", "7", "8", "9",
               "A", "B", "C", "D", "E", "F">>

\* bytes.hex().upper(): two uppercase hex digits per byte
HexUpper(b) ==
  [i \in 1..(2 * Len(b)) |->
     IF i % 2 = 1 THEN HexDigits[(b[(i + 1) \div 2] \div 16) + 1]
                  ELSE HexDigits[(b[i \div 2] % 16) + 1]]

\* HexUpper of the byte strings of the model, computed once
HexTable == [b \in Infohashes \cup {HShort} |-> HexUpper(b)]

\* Master._enqueue_once, lines 263-264: the key of the seen set
Key(infohash, address) == <<HexTable[infohash], address[1], address[2]>>

\* ------------------------------------------------- MetadataPeerStore (master.py)
RECURSIVE SortDesc(_)
\* list.sort(key=ts, reverse=True): stable, most recent first
SortDesc(s) ==
  IF Len(s) = 0 THEN s
  ELSE LET t == SortDesc(SubSeq(s, 1, Len(s) - 1))
           x == s[Len(s)]
           n == Cardinality({i \in 1..Len(t) : t[i][3] >= x[3]})
       IN SubSeq(t, 1, n) \o <<x>> \o SubSeq(t, n + 1, Len(t))

ValidAddress(address) ==
  /\ Len(address) = 2
  /\ address[2] >= MinPort
  /\ address[2] <= MaxPort

\* MetadataPeerStore.mark_ok: the new _peers list
mark_ok(address, now) ==
  IF ~ValidAddress(address) THEN peers
  ELSE LET hit == {i \in 1..Len(peers) :
                     <<peers[i][1], peers[i][2]>> = address}
           rec == <<address[1], address[2], now>>
           upd == IF hit = {} THEN Append(peers, rec)
                  ELSE LET i == CHOOSE i \in hit : \A j \in hit : i <= j
                       IN [peers EXCEPT ![i] = rec]
           srt == SortDesc(upd)
       IN IF Len(srt) > max_peers THEN SubSeq(srt, 1, max_peers) ELSE srt

\* MetadataPeerStore.mark_ok: the file after the append
mark_ok_file(address, now) ==
  IF ~ValidAddress(address) THEN peers_file
  ELSE Append(peers_file,
              [ip |-> address[1], port |-> address[2], last_ok |-> now])

\* sample as it would be if it returned the whole pool
sample_all(k) == {[i \in 1..Len(peers) |-> <<peers[i][1], peers[i][2]>>]}

\* MetadataPeerStore.sample: every list random.sample can return
sample(k) ==
  IF Len(peers) = 0 THEN {<<>>}
  ELSE LET n == Min(k, Len(peers))
       IN IF Len(peers) > n
          THEN {[i \in 1..n |-> <<peers[f[i]][1], peers[f[i]][2]>>] :
                  f \in {g \in [1..n -> 1..Len(peers)] :
                           \A i, j \in 1..n : i # j => g[i] # g[j]}}
          ELSE {[i \in 1..Len(peers) |-> <<peers[i][1], peers[i][2]>>]}

\* A line of a store's file.  What mark_ok appends is a record with ip, port
\* and last_ok; a line can also be text that json.loads refuses ("text"), an
\* object with a field missing or of the wrong type ("fields"), or JSON that
\* is not an object, such as a number ("scalar").
TextLine == [junk |-> "text"]
FieldsLine == [junk |-> "fields"]
ScalarLine == [junk |-> "scalar"]
Line(address, ts) == [ip |-> address[1], port |-> address[2], last_ok |-> ts]

\* items[key] = ts when the key is new or ts is greater: a dictionary keeps a
\* key where it was first inserted
put_item(items, line) ==
  LET hit == {i \in 1..Len(items) :
                items[i][1] = line.ip /\ items[i][2] = line.port}
      rec == <<line.ip, line.port, line.last_ok>>
  IN IF hit = {} THEN Append(items, rec)
     ELSE LET i == CHOOSE i \in hit : TRUE
          IN IF line.last_ok > items[i][3]
             THEN [items EXCEPT ![i] = rec]
             ELSE items

\* The loop over the lines of the file in _load_from_previous_run and in
\* _load_previous.  obj.get on JSON that is not an object raises outside the
\* inner try, and the outer except ends the reading there.
RECURSIVE read_lines(_, _, _)
read_lines(file, now, items) ==
  IF file = <<>> THEN items
  ELSE LET line == Head(file)
       IN IF "junk" \in DOMAIN line
          THEN IF line.junk = "scalar" THEN items
               ELSE read_lines(Tail(file), now, items)
          ELSE IF line.port < MinPort \/ line.port > MaxPort
               THEN read_lines(Tail(file), now, items)
          ELSE IF now - line.last_ok > ttl_seconds
               THEN read_lines(Tail(file), now, items)
          ELSE read_lines(Tail(file), now, put_item(items, line))

\* MetadataPeerStore._load_from_previous_run: the new _peers list
load_from_previous_run(file, now) ==
  LET sorted == SortDesc(read_lines(file, now, <<>>))
  IN SubSeq(sorted, 1, Min(max_peers, Len(sorted)))

\* ------------------------------------------------------------ Master (master.py)
\* _mark_bad as it would be if the entry expired when it is written
mark_bad_expired(address, now) == Put(bad, address, now)

\* Master._mark_bad: the new bad map
mark_bad(address, now) == Put(bad, address, now + bad_ttl)

\* _is_bad as it would be if no address were ever reported bad
is_bad_never(address, now) == FALSE

\* Master._is_bad: the value returned
is_bad(address, now) ==
  /\ address \in DOMAIN bad
  /\ bad[address] # 0
  /\ ~(bad[address] <= now)

\* _is_bad as it would be if a lookup deleted every expired entry
is_bad_map_purge(address, now) ==
  [a \in {x \in DOMAIN bad : ~(bad[x] # 0 /\ bad[x] <= now)} |-> bad[a]]

\* Master._is_bad: the bad map after the lookup (an expired entry is deleted)
is_bad_map(address, now) ==
  IF address \in DOMAIN bad /\ bad[address] # 0 /\ bad[address] <= now
  THEN Del(bad, address)
  ELSE bad

\* Master._record_failure: the new counter of the address
record_failure(address, now) ==
  LET cur == Get(fail_counts, address, <<0, now + fail_window>>)
      rst == IF cur[2] <= now THEN <<0, now + fail_window>> ELSE cur
  IN <<rst[1] + 1, rst[2]>>

\* the test as it would be if the threshold had to be exceeded
record_failure_marks_late(address, now) ==
  record_failure(address, now)[1] > fail_threshold

\* Master._record_failure, line 188: whether it calls _mark_bad
record_failure_marks(address, now) ==
  record_failure(address, now)[1] >= fail_threshold

\* the membership test as it would be if the seen set were never consulted
seen_has_never(key) == FALSE

\* Master._enqueue_once, lines 266-267: if key in self.seen
seen_has(key) == key \in seen

\* the flush as it would be if it kept the key just inserted
seen_clear_keeps(added, key) ==
  IF Cardinality(added) > SeenLimit THEN {key} ELSE added

\* Master._enqueue_once, lines 270-271: if len(self.seen) > 60000:
\* self.seen.clear()
seen_clear(added, key) ==
  IF Cardinality(added) > SeenLimit THEN {} ELSE added

\* Master._enqueue_once: the value returned and the state it leaves
enqueue_once(infohash, address, now) ==
  IF address = EmptyAddr
  THEN [ret |-> FALSE, seen |-> seen, queue |-> queue, bad |-> bad,
        flushed |-> FALSE]
  ELSE IF Len(infohash) # InfohashLen
  THEN [ret |-> FALSE, seen |-> seen, queue |-> queue, bad |-> bad,
        flushed |-> FALSE]
  ELSE IF is_bad(address, now)
  THEN [ret |-> FALSE, seen |-> seen, queue |-> queue,
        bad |-> is_bad_map(address, now), flushed |-> FALSE]
  ELSE IF seen_has(Key(infohash, address))
  THEN [ret |-> FALSE, seen |-> seen, queue |-> queue,
        bad |-> is_bad_map(address, now), flushed |-> FALSE]
  ELSE LET added == seen \cup {Key(infohash, address)}
           flush == Cardinality(added) > SeenLimit
       IN [ret |-> TRUE,
           seen |-> seen_clear(added, Key(infohash, address)),
           queue |-> Append(queue, <<address, infohash>>),
           bad |-> is_bad_map(address, now),
           flushed |-> flush]

\* The history after items were pushed, started or ended
Noted(what, items) ==
  IF fifo.on THEN [fifo EXCEPT ![what] = @ \o items] ELSE fifo

NoFifo(on) == [on |-> on, pushes |-> <<>>, starts |-> <<>>, ends |-> <<>>]

\* The items a step put on the queue
Appended(q) == SubSeq(q, Len(queue) + 1, Len(q))

\* One _enqueue_once call at time now, with the history it leaves
DoEnqueue(infohash, address, now) ==
  LET r == enqueue_once(infohash, address, now)
      k == IF address = EmptyAddr THEN <<>> ELSE Key(infohash, address)
  IN /\ clock' = now
     /\ seen' = r.seen
     /\ queue' = r.queue
     /\ bad' = r.bad
     /\ enq' = [infohash |-> infohash, address |-> address, at |-> now,
                ret |-> r.ret,
                was_bad |-> address \in DOMAIN bad /\ bad[address] > now,
                was_seen |-> k \in seen,
                changed |-> r.seen # seen \/ r.queue # queue,
                nfail |-> Len(Get(fail_hist, address, <<>>)),
                last_mark |-> Get(last_mark, address, 0 - 1),
                last_move |-> Get(last_move, address, 0 - 1)]
     /\ accepts' = IF ~r.ret THEN accepts
                   ELSE IF r.flushed THEN (k :> 1)
                   ELSE Put(accepts, k, Get(accepts, k, 0) + 1)
     /\ flush_key' = IF r.flushed THEN k ELSE flush_key
     /\ fifo' = Noted("pushes", Appended(r.queue))

NoCall == [pc |-> "done", infohash |-> <<>>, address |-> <<>>, ok |-> FALSE,
           hints |-> <<>>, pushed |-> <<>>]

\* Master.log_infohash, line 277: the primary _enqueue_once
LogPrimary(infohash, address, now) ==
  /\ call.pc = "done"
  /\ DoEnqueue(infohash, address, now)
  /\ LET r == enqueue_once(infohash, address, now)
     IN call' = [pc |-> IF r.ret /\ Len(infohash) = InfohashLen
                        THEN "sample" ELSE "done",
                 infohash |-> infohash, address |-> address, ok |-> r.ret,
                 hints |-> <<>>, pushed |-> Appended(r.queue)]
  /\ calls' = calls + 1
  /\ UNCHANGED <<max_workers, sem, fail_counts, ok_count, fail_count, peers, peers_file,
                 run_pc, run_item, workers, fail_hist, last_mark, last_move,
                 ended, finished>>

\* Master.log_infohash, line 280: peer_store.sample(hint_k)
LogSample ==
  /\ call.pc = "sample"
  /\ \E h \in sample(hint_k) :
       call' = [call EXCEPT !.hints = h,
                            !.pc = IF Len(h) = 0 THEN "done" ELSE "hints"]
  /\ UNCHANGED <<clock, queue, seen, max_workers, sem, bad, fail_counts, ok_count,
                 fail_count, peers, peers_file, run_pc, run_item, workers,
                 calls, enq, accepts, flush_key, fail_hist, last_mark,
                 last_move, ended, finished, fifo>>

\* the test as it would be if the announcing peer were not left out
is_hint_any(peer, address) == TRUE

\* Master.log_infohash, line 281: if peer != address
is_hint(peer, address) == peer # address

\* Master.log_infohash, lines 280-283: one turn of the loop over the hints
LogHint(delays) ==
  /\ call.pc = "hints"
  /\ LET peer == Head(call.hints)
         rest == Tail(call.hints)
         pc2 == IF Len(rest) = 0 THEN "done" ELSE "hints"
     IN IF ~is_hint(peer, call.address)
        THEN /\ call' = [call EXCEPT !.hints = rest, !.pc = pc2]
             /\ UNCHANGED <<clock, queue, seen, max_workers, bad, enq, accepts,
                            flush_key, fifo>>
        ELSE \E now \in Readings(delays) :
               /\ DoEnqueue(call.infohash, peer, now)
               /\ call' = [call EXCEPT
                             !.hints = rest, !.pc = pc2,
                             !.pushed = @ \o Appended(
                               enqueue_once(call.infohash, peer, now).queue)]
  /\ UNCHANGED <<max_workers, sem, fail_counts, ok_count, fail_count, peers, peers_file,
                 run_pc, run_item, workers, calls, fail_hist, last_mark,
                 last_move, ended, finished>>

\* Master.run, line 224: queue.get()
\* queue.get() as it would be if it took the newest item
queue_get_lifo(q) == [item |-> q[Len(q)], rest |-> SubSeq(q, 1, Len(q) - 1)]

\* Master.run, line 224: queue.get() takes the oldest item
queue_get(q) == [item |-> Head(q), rest |-> Tail(q)]

RunGet ==
  /\ run_pc = "get"
  /\ Len(queue) > 0
  /\ run_item' = queue_get(queue).item
  /\ queue' = queue_get(queue).rest
  /\ run_pc' = "acquire"
  /\ UNCHANGED <<clock, seen, max_workers, sem, bad, fail_counts, ok_count, fail_count,
                 peers, peers_file, workers, call, calls, enq, accepts,
                 flush_key, fail_hist, last_mark, last_move, ended, finished, fifo>>

\* sem_acquire as it would be if acquire() never blocked
sem_acquire_unbounded == TRUE

\* BoundedSemaphore.acquire: whether the caller may pass
sem_acquire == sem > 0

\* Master.run, line 225: sem.acquire()
RunAcquire ==
  /\ run_pc = "acquire"
  /\ sem_acquire
  /\ sem' = sem - 1
  /\ run_pc' = "start"
  /\ UNCHANGED <<clock, queue, seen, max_workers, bad, fail_counts, ok_count, fail_count,
                 peers, peers_file, run_item, workers, call, calls, enq,
                 accepts, flush_key, fail_hist, last_mark, last_move, ended, finished, fifo>>

\* Master.run, lines 226-231: Thread(target=self._worker).start()
RunStart ==
  /\ run_pc = "start"
  /\ workers' = workers (+) SetToBag({[address |-> run_item[1],
                                       infohash |-> run_item[2],
                                       pc |-> "fetch", result |-> "",
                                       tmp |-> 0]})
  /\ run_pc' = "get"
  /\ run_item' = <<>>
  /\ fifo' = Noted("starts", <<run_item>>)
  /\ UNCHANGED <<clock, queue, seen, max_workers, sem, bad, fail_counts, ok_count,
                 fail_count, peers, peers_file, call, calls, enq, accepts,
                 flush_key, fail_hist, last_mark, last_move, ended, finished>>

Replace(w, w2) == (workers (-) SetToBag({w})) (+) SetToBag({w2})

\* Master._worker, line 235: download_metadata returns a status; "raised"
\* stands for an exception that leaves the try body
WorkerFetch(w, outcomes) ==
  /\ w.pc = "fetch"
  /\ \E r \in outcomes :
       workers' = Replace(w, [w EXCEPT !.result = r,
                                       !.pc = IF r = "raised" THEN "release"
                                              ELSE "load"])
  /\ UNCHANGED <<clock, queue, seen, max_workers, sem, bad, fail_counts, ok_count,
                 fail_count, peers, peers_file, run_pc, run_item, call, calls,
                 enq, accepts, flush_key, fail_hist, last_mark, last_move,
                 ended, finished, fifo>>

\* Master._worker, lines 243 / 246: the read of `self.x_count += 1`
WorkerLoad(w) ==
  /\ w.pc = "load"
  /\ workers' = Replace(w, [w EXCEPT
                              !.tmp = IF w.result = "ok" THEN ok_count
                                      ELSE fail_count,
                              !.pc = "store"])
  /\ UNCHANGED <<clock, queue, seen, max_workers, sem, bad, fail_counts, ok_count,
                 fail_count, peers, peers_file, run_pc, run_item, call, calls,
                 enq, accepts, flush_key, fail_hist, last_mark, last_move,
                 ended, finished, fifo>>

\* Master._worker, line 247: the results that call _record_failure
damaging(result) == result \in {"timeout", "os_error"}

\* Master._worker, lines 243 / 246: the write of `self.x_count += 1`
WorkerStore(w) ==
  /\ w.pc = "store"
  /\ IF w.result = "ok"
     THEN /\ ok_count' = w.tmp + 1
          /\ UNCHANGED fail_count
     ELSE /\ fail_count' = w.tmp + 1
          /\ UNCHANGED ok_count
  /\ workers' = Replace(w, [w EXCEPT
                              !.pc = IF w.result = "ok" THEN "mark_ok"
                                     ELSE IF damaging(w.result)
                                     THEN "record_failure"
                                     ELSE "release",
                              !.tmp = 0])
  /\ UNCHANGED <<clock, queue, seen, max_workers, sem, bad, fail_counts, peers,
                 peers_file, run_pc, run_item, call, calls, enq, accepts,
                 flush_key, fail_hist, last_mark, last_move, ended, finished, fifo>>

\* MetadataPeerStore.mark_ok, line 87: now = time.time(), read before the
\* lock is taken
WorkerMarkOkNow(w, delays) ==
  /\ w.pc = "mark_ok"
  /\ \E now \in Readings(delays) :
       /\ clock' = now
       /\ workers' = Replace(w, [w EXCEPT !.pc = "mark_ok_lock", !.tmp = now])
  /\ UNCHANGED <<queue, seen, max_workers, sem, bad, fail_counts, ok_count, fail_count,
                 peers, peers_file, run_pc, run_item, call, calls, enq,
                 accepts, flush_key, fail_hist, last_mark, last_move, ended, finished, fifo>>

\* MetadataPeerStore.mark_ok, lines 90-114: what it does holding the lock
WorkerMarkOk(w) ==
  /\ w.pc = "mark_ok_lock"
  /\ peers' = mark_ok(w.address, w.tmp)
  /\ peers_file' = mark_ok_file(w.address, w.tmp)
  /\ workers' = Replace(w, [w EXCEPT !.pc = "release", !.tmp = 0])
  /\ UNCHANGED <<clock, queue, seen, max_workers, sem, bad, fail_counts, ok_count,
                 fail_count, run_pc, run_item, call, calls, enq, accepts,
                 flush_key, fail_hist, last_mark, last_move, ended, finished, fifo>>

\* Master._worker, line 248: _record_failure(address), with the _mark_bad
\* it calls; both read the clock within the same second
WorkerRecordFailure(w, delays) ==
  /\ w.pc = "record_failure"
  /\ \E now \in Readings(delays) :
       /\ clock' = now
       /\ fail_counts' = Put(fail_counts, w.address,
                             record_failure(w.address, now))
       /\ fail_hist' = Put(fail_hist, w.address,
                           Append(Get(fail_hist, w.address, <<>>), now))
       /\ IF record_failure_marks(w.address, now)
          THEN /\ bad' = mark_bad(w.address, now)
               /\ last_mark' = Put(last_mark, w.address, now)
               /\ last_move' =
                    IF w.address \in DOMAIN bad /\ bad[w.address] > now
                    THEN last_move
                    ELSE Put(last_move, w.address, now)
          ELSE UNCHANGED <<bad, last_mark, last_move>>
  /\ workers' = Replace(w, [w EXCEPT !.pc = "release"])
  /\ UNCHANGED <<queue, seen, max_workers, sem, ok_count, fail_count, peers, peers_file,
                 run_pc, run_item, call, calls, enq, accepts, flush_key,
                 ended, finished, fifo>>

Kind(result) ==
  IF result = "ok" THEN "ok" ELSE IF result = "raised" THEN "raised" ELSE "fail"

\* sem_release as it would be if the release were skipped
sem_release_lost == sem

\* BoundedSemaphore.release: the new value (ValueError past the initial
\* value, which _worker swallows)
sem_release == IF sem >= max_workers THEN sem ELSE sem + 1

\* Master._worker, lines 249-253: finally: sem.release(); the thread ends
WorkerRelease(w) ==
  /\ w.pc = "release"
  /\ sem' = sem_release
  /\ workers' = workers (-) SetToBag({w})
  /\ ended' = ended \cup {Kind(w.result)}
  /\ finished' = [finished EXCEPT ![Kind(w.result)] = @ + 1]
  /\ fifo' = Noted("ends", <<<<w.address, w.infohash>>>>)
  /\ UNCHANGED <<clock, queue, seen, max_workers, bad, fail_counts, ok_count, fail_count,
                 peers, peers_file, run_pc, run_item, call, calls, enq,
                 accepts, flush_key, fail_hist, last_mark, last_move>>

\* --------------------------------------------------------- DHTProcess (dht.py)
\* get_neighbor(target, nid, end)
get_neighbor(target, n, end) ==
  SubSeq(target, 1, Min(end, Len(target))) \o SubSeq(n, end + 1, Len(n))

\* the token test as it would be if every token were taken
token_ok_any(infohash, token) == TRUE

\* on_announce_peer_request, line 370: infohash[:token_length] == token
token_ok(infohash, token) ==
  SubSeq(infohash, 1, Min(token_length, Len(infohash))) = token

\* the candidates as they would be without the source port as a second one
candidates_single(port, address) == <<port>>

\* on_announce_peer_request, lines 380-382: the candidate ports
candidates(port, address) ==
  IF address[2] # port THEN <<port, address[2]>> ELSE <<port>>

\* on_announce_peer_request, lines 366-382: the ports the loop will pass to
\* log_infohash; none when a key is missing (KeyError), the token differs
\* or the port is out of range
announce_candidates(msg, address) ==
  IF msg.a.token = <<>> THEN <<>>
  ELSE IF ~token_ok(msg.a.info_hash, msg.a.token[1]) THEN <<>>
  ELSE IF msg.a.implied_port # <<>> /\ msg.a.implied_port[1] # 0
  THEN candidates(address[2], address)
  ELSE IF msg.a.port = <<>> THEN <<>>
  ELSE IF msg.a.port[1] < MinPort \/ msg.a.port[1] > MaxPort THEN <<>>
  ELSE candidates(msg.a.port[1], address)

\* DHTProcess.ok: the replies it sends; none when t or a.id is missing
\* (KeyError) or a.id is not a byte string (TypeError in get_neighbor)
ok(msg, address) ==
  IF msg.t = <<>> \/ msg.a.id.kind # "bytes" THEN <<>>
  ELSE << <<[t |-> msg.t[1], y |-> "r",
             r |-> [id |-> get_neighbor(msg.a.id.val, nid, NeighborEnd)]],
           address>> >>

NoMsg == [t |-> <<>>,
          a |-> [id |-> [kind |-> "absent", val |-> <<>>], info_hash |-> <<>>,
                 token |-> <<>>, implied_port |-> <<>>, port |-> <<>>]]

\* DHTProcess.run, lines 277-322, on_message, and on_announce_peer_request
\* up to the loop: an announce_peer query arrives
DhtRecv(msg, address) ==
  /\ started
  /\ dht_pc = "recv"
  /\ rx < MaxRx
  /\ rx' = rx + 1
  /\ dht_msg' = msg
  /\ dht_src' = address
  /\ dht_cands' = announce_candidates(msg, address)
  /\ passed' = <<>>
  /\ sent' = <<>>
  /\ dht_pc' = "announce"
  /\ UNCHANGED <<master_vars, nid, tx, gp_sent, issued>>

\* on_announce_peer_request, lines 384-385: one turn of the loop, up to the
\* primary _enqueue_once of the log_infohash it calls
DhtCall ==
  /\ dht_pc = "announce"
  /\ dht_cands # <<>>
  /\ LogPrimary(dht_msg.a.info_hash, <<dht_src[1], Head(dht_cands)>>, clock)
  /\ passed' = Append(passed, <<dht_msg.a.info_hash,
                                 <<dht_src[1], Head(dht_cands)>>>>)
  /\ dht_cands' = Tail(dht_cands)
  /\ UNCHANGED <<nid, rx, tx, dht_pc, dht_msg, dht_src, sent, gp_sent, issued>>

\* on_announce_peer_request, lines 387-390, with ok and send_krpc: the
\* handler ends, whichever way, and replies
DhtReply ==
  /\ dht_pc = "announce"
  /\ dht_cands = <<>>
  /\ call.pc = "done"
  /\ sent' = sent \o ok(dht_msg, dht_src)
  /\ tx' = tx + Len(ok(dht_msg, dht_src))
  /\ dht_pc' = "recv"
  /\ UNCHANGED <<master_vars, nid, rx, dht_msg, dht_src, dht_cands, passed,
                 gp_sent, issued>>

\* get_peers queries: t and a.info_hash are absent (<<>>) or present (<<v>>);
\* a peer can send an info_hash of any length
GetPeersMessages ==
  [t : {<<>>, <<Tid>>},
   info_hash : {<<>>} \cup {<<h>> : h \in Infohashes \cup {HShort}}]

\* on_get_peers_request as it would be if the token were the infohash's tail
get_peers_token_tail(infohash) ==
  SubSeq(infohash, Len(infohash) - token_length + 1, Len(infohash))

\* on_get_peers_request, line 355: token = infohash[: self.token_length]
get_peers_token(infohash) ==
  SubSeq(infohash, 1, Min(token_length, Len(infohash)))

\* on_get_peers_request, lines 352-361: the replies it sends; none when
\* a.info_hash or t is missing (KeyError)
get_peers_reply(msg, address) ==
  IF msg.info_hash = <<>> \/ msg.t = <<>> THEN <<>>
  ELSE << <<[t |-> msg.t[1], y |-> "r",
             r |-> [id |-> get_neighbor(msg.info_hash[1], nid, NeighborEnd),
                    nodes |-> "",
                    token |-> get_peers_token(msg.info_hash[1])]],
           address>> >>

\* DHTProcess.run, on_message and on_get_peers_request: a get_peers query
\* arrives and is answered
DhtGetPeers(msg, address) ==
  /\ started
  /\ dht_pc = "recv"
  /\ rx < MaxRx
  /\ rx' = rx + 1
  /\ gp_sent' = get_peers_reply(msg, address)
  /\ tx' = tx + Len(get_peers_reply(msg, address))
  /\ issued' = issued \cup
       {<<msg.info_hash[1], r[1].r.token>> :
          r \in {get_peers_reply(msg, address)[i] :
                   i \in 1..Len(get_peers_reply(msg, address))}}
  /\ UNCHANGED <<master_vars, nid, dht_pc, dht_msg, dht_src, dht_cands, passed,
                 sent>>

\* ------------------------------------------------- DHTBootstrapStore (dht.py)
\* DHTBootstrapStore.mark_ok: the new _peers dictionary
boot_mark_ok(address, now) ==
  IF ~ValidAddress(address) THEN boot_peers
  ELSE LET hit == {i \in 1..Len(boot_peers) :
                     <<boot_peers[i][1], boot_peers[i][2]>> = address}
           rec == <<address[1], address[2], now>>
           upd == IF hit = {} THEN Append(boot_peers, rec)
                  ELSE LET i == CHOOSE i \in hit : TRUE
                       IN IF now > boot_peers[i][3]
                          THEN [boot_peers EXCEPT ![i] = rec]
                          ELSE boot_peers
       IN IF Len(upd) > boot_max_peers
          THEN SubSeq(SortDesc(upd), 1, boot_max_peers)
          ELSE upd

\* DHTBootstrapStore._load_previous: the new _peers dictionary
load_previous(file, now) ==
  LET items == read_lines(file, now, <<>>)
  IN IF Len(items) > boot_max_peers
     THEN SubSeq(SortDesc(items), 1, boot_max_peers)
     ELSE items

\* DHTBootstrapStore.sample_previous on the dictionary store: every list it
\* can return
sample_previous_of(store, k) ==
  IF Len(store) = 0 THEN {<<>>}
  ELSE LET items == SortDesc(store)
           m == Min(IF k * 4 > k THEN k * 4 ELSE k, Len(items))
           pool == [i \in 1..m |-> <<items[i][1], items[i][2]>>]
           n == Min(k, m)
       IN IF m > n
          THEN {[i \in 1..n |-> pool[f[i]]] :
                  f \in {g \in [1..n -> 1..m] :
                           \A i, j \in 1..n : i # j => g[i] # g[j]}}
          ELSE {pool}

\* DHTBootstrapStore.sample_previous
sample_previous(k) == sample_previous_of(boot_peers, k)

\* mark_ok as it would be if the source were not recorded
boot_mark_ok_file_unmarked(address, now) == boot_file

\* DHTBootstrapStore.mark_ok: the file after the append
boot_mark_ok_file(address, now) ==
  IF ~ValidAddress(address) THEN boot_file
  ELSE Append(boot_file,
              [ip |-> address[1], port |-> address[2], last_ok |-> now])

\* process_find_node_response, line 340: bootstrap_store.mark_ok(address)
BootMarkOk(address, delays) ==
  /\ Len(boot_file) < BootCalls
  /\ \E now \in Readings(delays) :
       /\ clock' = now
       /\ boot_peers' = boot_mark_ok(address, now)
       /\ boot_file' = boot_mark_ok_file(address, now)
  /\ UNCHANGED <<queue, seen, max_workers, sem, bad, fail_counts, ok_count,
                 fail_count, peers, peers_file, run_pc, run_item, workers,
                 call, calls, enq, accepts, flush_key, fail_hist, last_mark,
                 last_move, ended, finished, fifo>>

\* ------------------------------------------------- DHTProcess: the node deque
dht_rest == <<nid, dht_pc, dht_msg, dht_src, dht_cands, passed, sent, gp_sent,
              issued>>

\* send_find_node as it would be with the prefix of token_length bytes
find_node_id_token(n) ==
  IF n # <<>> THEN get_neighbor(n, nid, token_length) ELSE nid

\* send_find_node, line 245: get_neighbor(nid, self.nid) if nid else self.nid
find_node_id(n) ==
  IF n # <<>> THEN get_neighbor(n, nid, NeighborEnd) ELSE nid

\* send_find_node: the query and where it goes (t and a.target are random)
send_find_node(address, n) ==
  <<[y |-> "q", q |-> "find_node", a |-> [id |-> find_node_id(n)]], address>>

\* join_dht: a find_node to every bootstrap node, then to every extra one
join_dht ==
  [i \in 1..Len(BOOTSTRAP_NODES) |-> send_find_node(BOOTSTRAP_NODES[i], <<>>)]
  \o [i \in 1..Len(bootstrap_extra) |-> send_find_node(bootstrap_extra[i], <<>>)]

Destinations(msgs) == {msgs[i][2] : i \in 1..Len(msgs)}

\* re_join_dht: join_dht when the deque is empty; the caller counts the
\* timer that line 271 starts
re_join_dht ==
  /\ rejoins' = rejoins + 1
  /\ find_sent' = IF Len(nodes) = 0 THEN join_dht ELSE <<>>
  /\ tx' = tx + (IF Len(nodes) = 0 THEN Len(join_dht) ELSE 0)
  /\ asked' = asked \cup (IF Len(nodes) = 0 THEN Destinations(join_dht) ELSE {})
  /\ UNCHANGED <<master_vars, fetch_vars, storage_vars, lock_vars, boot_vars, dht_rest, rx, max_peers,
                 boot_max_peers, nodes, bootstrap_extra, dg, m_runs, b_runs, smp>>

\* DHTProcess.run, line 274: the thread starts with re_join_dht, which
\* starts a timer
DhtStart ==
  /\ ~started
  /\ started' = TRUE
  /\ timers' = timers + 1
  /\ re_join_dht

\* A pending Timer fires: re_join_dht runs and starts the next timer
TimerFire ==
  /\ timers > 0
  /\ rejoins < MaxRejoins
  /\ timers' = (timers - 1) + 1
  /\ re_join_dht
  /\ UNCHANGED started

\* inet_ntoa: four bytes as a dotted quad
inet_ntoa(b) ==
  ToString(b[1]) \o "." \o ToString(b[2]) \o "." \o ToString(b[3]) \o "."
  \o ToString(b[4])

\* decode_nodes: nothing unless the length is a multiple of 26
decode_nodes(raw) ==
  IF Len(raw) % CompactLen # 0 THEN <<>>
  ELSE [i \in 1..(Len(raw) \div CompactLen) |->
          LET e == SubSeq(raw, (i - 1) * CompactLen + 1, i * CompactLen)
          IN [nid |-> SubSeq(e, 1, 20), ip |-> inet_ntoa(SubSeq(e, 21, 24)),
              port |-> e[25] * 256 + e[26]]]

\* process_find_node_response, lines 342-348: the test a node passes
Storable(n) ==
  /\ Len(n.nid) = InfohashLen
  /\ n.ip # SelfIp
  /\ n.port >= MinPort
  /\ n.port <= MaxPort

RECURSIVE Select(_)
Select(ns) ==
  IF ns = <<>> THEN <<>>
  ELSE IF Storable(Head(ns)) THEN <<Head(ns)>> \o Select(Tail(ns))
  ELSE Select(Tail(ns))

\* deque.append as it would be without maxlen
extend_unbounded(d, ns) == d \o ns

\* deque(maxlen=max_node_qsize).append, once per node: a full deque drops
\* its oldest element
extend(d, ns) ==
  LET all == d \o ns
  IN IF Len(all) > max_node_qsize
     THEN SubSeq(all, Len(all) - max_node_qsize + 1, Len(all))
     ELSE all

\* on_message, line 404: "nodes" in msg.get("r", {})
has_nodes(msg) == msg.r.kind \in {"int", "nodes"}

\* process_find_node_response, lines 334-338: what decode_nodes is given
decoded(msg) ==
  IF msg.r.kind = "nodes" THEN decode_nodes(msg.r.raw) ELSE <<>>

\* DHTProcess.run, on_message and process_find_node_response: a message with
\* y = r arrives
DhtResponse(msg, address, delays) ==
  /\ started
  /\ rx < MaxRx
  /\ rx' = rx + 1
  /\ dg' = [kind |-> "r", msg |-> msg, src |-> address, sent |-> <<>>]
  /\ find_sent' = <<>>
  /\ IF has_nodes(msg) /\ decoded(msg) # <<>>
     THEN /\ \E now \in Readings(delays) :
               /\ clock' = now
               /\ boot_peers' = boot_mark_ok(address, now)
               /\ boot_file' = boot_mark_ok_file(address, now)
          /\ nodes' = extend(nodes, Select(decoded(msg)))
     ELSE UNCHANGED <<clock, boot_peers, boot_file, nodes>>
  /\ UNCHANGED <<queue, seen, max_workers, sem, bad, fail_counts, ok_count,
                 fail_count, peers, peers_file, run_pc, run_item, workers,
                 call, calls, enq, accepts, flush_key, fail_hist, last_mark,
                 last_move, ended, finished, fifo>>
  /\ UNCHANGED <<fetch_vars, storage_vars, lock_vars, dht_rest, tx, max_peers, boot_max_peers, timers,
                 started, bootstrap_extra, asked, rejoins, m_runs, b_runs, smp>>

\* play_dead as it would be if it kept quiet
play_dead_silent(msg, address) == <<>>

\* play_dead: the replies it sends; none when t is missing (KeyError)
play_dead(msg, address) ==
  IF msg.t = <<>> THEN <<>>
  ELSE << <<[t |-> msg.t[1], y |-> "e",
             e |-> <<ErrorCode, "Server Error">>], address>> >>

\* DHTProcess.run, on_message and play_dead: a query without a handler
DhtQuery(msg, address) ==
  /\ started
  /\ rx < MaxRx
  /\ rx' = rx + 1
  /\ dg' = [kind |-> "q", msg |-> msg, src |-> address,
            sent |-> play_dead(msg, address)]
  /\ tx' = tx + Len(play_dead(msg, address))
  /\ find_sent' = <<>>
  /\ UNCHANGED <<master_vars, fetch_vars, storage_vars, lock_vars, boot_vars, dht_rest, max_peers,
                 boot_max_peers, nodes, timers, started, bootstrap_extra,
                 asked, rejoins, m_runs, b_runs, smp>>

\* drop as it would be if the node answered what it cannot read
drop_reply_error(address) ==
  << <<[t |-> <<>>, y |-> "e", e |-> <<ErrorCode, "Server Error">>],
       address>> >>

\* DHTProcess.run, lines 283-289, and on_message, line 412: what the node
\* sends for a datagram it throws away
drop_reply(address) == <<>>

\* DHTProcess.run: a datagram that is thrown away
DhtDrop(kind, address) ==
  /\ started
  /\ rx < MaxRx
  /\ rx' = rx + 1
  /\ dg' = [kind |-> kind, msg |-> <<>>, src |-> address,
            sent |-> drop_reply(address)]
  /\ tx' = tx + Len(drop_reply(address))
  /\ find_sent' = <<>>
  /\ UNCHANGED <<master_vars, fetch_vars, storage_vars, lock_vars, boot_vars, dht_rest, max_peers,
                 boot_max_peers, nodes, timers, started, bootstrap_extra,
                 asked, rejoins, m_runs, b_runs, smp>>

\* auto_send_find_node: one turn of the loop with a node in the deque
Drain ==
  /\ nodes # <<>>
  /\ nodes' = Tail(nodes)
  /\ find_sent' = <<send_find_node(<<Head(nodes).ip, Head(nodes).port>>,
                                   Head(nodes).nid)>>
  /\ tx' = tx + 1
  /\ asked' = asked \cup {<<Head(nodes).ip, Head(nodes).port>>}
  /\ UNCHANGED <<master_vars, fetch_vars, storage_vars, lock_vars, boot_vars, dht_rest, rx, max_peers,
                 boot_max_peers, timers, started, bootstrap_extra, rejoins,
                 dg, m_runs, b_runs, smp>>

\* ------------------------------------------------------- the locks (master.py)
Locks == {"fail_lock", "bad_lock", "store_lock"}

\* The DHT receive thread, the dispatcher and two worker threads
LockThreads == {"dht", "run", "w1", "w2"}

Acq(l) == <<"acquire", l>>
Rel(l) == <<"release", l>>

\* Master._mark_bad, line 162: with self.bad_lock
mark_bad_locks == <<Acq("bad_lock"), Rel("bad_lock")>>

\* _is_bad as it would be if it held bad_lock while taking fail_lock
is_bad_locks_nested ==
  <<Acq("bad_lock"), Acq("fail_lock"), Rel("fail_lock"), Rel("bad_lock")>>

\* Master._is_bad, line 167: with self.bad_lock
is_bad_locks == <<Acq("bad_lock"), Rel("bad_lock")>>

\* Master._record_failure, lines 181-189: with self.fail_lock, and inside it
\* _mark_bad when the count has reached the threshold
record_failure_locks(marks) ==
  <<Acq("fail_lock")>> \o (IF marks THEN mark_bad_locks ELSE <<>>)
  \o <<Rel("fail_lock")>>

\* Master._heartbeat_maybe, lines 207-208: with self.bad_lock
heartbeat_maybe_locks == <<Acq("bad_lock"), Rel("bad_lock")>>

\* MetadataPeerStore.mark_ok, lines 90-112: with self._lock
mark_ok_locks == <<Acq("store_lock"), Rel("store_lock")>>

\* MetadataPeerStore.sample, lines 117-121: with self._lock
sample_locks == <<Acq("store_lock"), Rel("store_lock")>>

\* The calls a thread makes: the DHT receive thread runs log_infohash
\* (_is_bad, sample), the dispatcher runs _heartbeat_maybe, a worker runs
\* mark_ok or _record_failure
LockCalls(t) ==
  CASE t = "dht" -> {is_bad_locks, sample_locks}
    [] t = "run" -> {heartbeat_maybe_locks}
    [] OTHER -> {mark_ok_locks, record_failure_locks(FALSE),
                 record_failure_locks(TRUE)}

LockCall(t) ==
  /\ lk[t] = <<>>
  /\ \E ops \in LockCalls(t) : lk' = [lk EXCEPT ![t] = ops]
  /\ UNCHANGED locks

\* threading.Lock.acquire: blocks while the lock is held, by any thread
LockAcquire(t) ==
  /\ lk[t] # <<>>
  /\ Head(lk[t])[1] = "acquire"
  /\ locks[Head(lk[t])[2]] = ""
  /\ locks' = [locks EXCEPT ![Head(lk[t])[2]] = t]
  /\ lk' = [lk EXCEPT ![t] = Tail(@)]

\* The end of the with block
LockRelease(t) ==
  /\ lk[t] # <<>>
  /\ Head(lk[t])[1] = "release"
  /\ locks' = [locks EXCEPT ![Head(lk[t])[2]] = ""]
  /\ lk' = [lk EXCEPT ![t] = Tail(@)]

\* ------------------------------------------------ storage_info (dht_spider.py)
\* The worker threads that can be inside storage_info
StorageThreads == {1, 2}

Outside == [pc |-> "idle", hash_id |-> "", flag |-> 0]

\* download_metadata, lines 267 and 296: storage_info_fn(info, ...) with
\* info["hash_id"] = infohash.hex().upper()
StCall(c, infohash) ==
  /\ st[c].pc = "idle"
  /\ st' = [st EXCEPT ![c] = [pc |-> "read", hash_id |-> HexTable[infohash],
                              flag |-> 0]]
  /\ UNCHANGED <<infos, log_file, torrents, opts>>

Blocks(file) == {file[i] : i \in 1..Len(file)}

\* storage_info, lines 128-135: the log is read and searched for the hash id
StRead(c) ==
  /\ st[c].pc = "read"
  /\ st' = [st EXCEPT ![c].pc = "check",
                      ![c].flag = IF ~opts.path_s
                                     /\ st[c].hash_id \in Blocks(log_file)
                                  THEN 1 ELSE 0]
  /\ UNCHANGED <<infos, log_file, torrents, opts>>

\* storage_info, line 138: (hash_id not in infos) and (flag == 0); otherwise
\* the call returns
StCheck(c) ==
  /\ st[c].pc = "check"
  /\ st' = [st EXCEPT ![c] = IF st[c].hash_id \notin Blocks(infos)
                                 /\ st[c].flag = 0
                              THEN [@ EXCEPT !.pc = "write"] ELSE Outside]
  /\ UNCHANGED <<infos, log_file, torrents, opts>>

\* storage_info, lines 139-179: the block is appended to the log and, with
\* save_seed = 1, the .torrent file is written; with path "-s" nothing is
\* stored
StWrite(c) ==
  /\ st[c].pc = "write"
  /\ log_file' = IF opts.path_s THEN log_file
                 ELSE Append(log_file, st[c].hash_id)
  /\ torrents' = IF ~opts.path_s /\ opts.save_seed = 1
                 THEN Append(torrents, st[c].hash_id) ELSE torrents
  /\ st' = [st EXCEPT ![c].pc = "append"]
  /\ UNCHANGED <<infos, opts>>

\* storage_info, line 181: infos.append(hash_id), inside the same branch
StAppend(c) ==
  /\ st[c].pc = "append"
  /\ infos' = Append(infos, st[c].hash_id)
  /\ st' = [st EXCEPT ![c] = Outside]
  /\ UNCHANGED <<log_file, torrents, opts>>

\* ------------------------------------------------------------ bt_metadata.py
\* A bencoded value of the extension handshake, as isinstance sees it: an
\* integer (one that float() cannot hold is "huge"), something else ("bytes"),
\* or a key that is not there.
Absent == [kind |-> "absent", val |-> 0]
NotInt == [kind |-> "bytes", val |-> 0]
Huge == [kind |-> "huge", val |-> 0]
IntVal(v) == [kind |-> "int", val |-> v]

\* What the peer answers to the extension handshake: lp bytes of the length
\* prefix, the length it announces, got bytes of body, the two id bytes, and
\* the payload.
GoodExt ==
  [lp |-> 4, msg_len |-> 40, got |-> 40, id0 |-> BT_MSG_ID,
   id1 |-> EXT_HANDSHAKE_ID, decodes |-> TRUE, dict |-> TRUE, m_dict |-> TRUE,
   ut |-> IntVal(1), size |-> IntVal(PieceLen)]

NoExt ==
  [lp |-> 0, msg_len |-> 0, got |-> 0, id0 |-> 0, id1 |-> 0,
   decodes |-> FALSE, dict |-> FALSE, m_dict |-> FALSE, ut |-> Absent,
   size |-> Absent]

UtValues == {Absent, NotInt} \cup {IntVal(v) : v \in {0 - 1, 0, 1, 3, 256}}

SizeValues ==
  {Absent, NotInt, Huge} \cup
  {IntVal(v) : v \in {0 - 1, 0, 1, PieceLen, PieceLen + 1, 2 * PieceLen + 1,
                      MaxPieces * PieceLen, MaxPieces * PieceLen + 1}}

ExtReplies ==
  {[GoodExt EXCEPT !.ut = u, !.size = s] : u \in UtValues, s \in SizeValues}
  \cup {[GoodExt EXCEPT !.lp = 2, !.got = 0],
        [GoodExt EXCEPT !.msg_len = 0, !.got = 0],
        [GoodExt EXCEPT !.msg_len = MaxMsgLen + 1, !.got = 0],
        [GoodExt EXCEPT !.got = 10],
        [GoodExt EXCEPT !.msg_len = 1, !.got = 1],
        [GoodExt EXCEPT !.msg_len = 2, !.got = 2],
        [GoodExt EXCEPT !.id0 = 19],
        [GoodExt EXCEPT !.id1 = 1],
        [GoodExt EXCEPT !.decodes = FALSE],
        [GoodExt EXCEPT !.dict = FALSE],
        [GoodExt EXCEPT !.m_dict = FALSE]}

IoOutcomes == {"ok", "sock_timeout", "sock_os"}

\* What one recvall returned, as the piece loop reads it
BlobKinds == {"piece", "bad_payload", "ee_piece", "ee_other", "wrong_piece",
              "wrong_type", "garbage", "empty"}

\* The infohash of the fetch
FetchHash == H1

IsInt(x) == x.kind \in {"int", "huge"}

NonNegative(x) == x.kind = "huge" \/ (x.kind = "int" /\ x.val >= 0)

Positive(x) == x.kind = "huge" \/ (x.kind = "int" /\ x.val > 0)

NoParse == [ok |-> FALSE, ut |-> Absent, size |-> Absent]

parse_ext_handshake(p) ==
  IF p.lp + p.got < MinPacket THEN NoParse
  ELSE IF p.msg_len <= 2 THEN NoParse
  ELSE IF p.lp + p.got < 4 + p.msg_len THEN NoParse
  ELSE IF p.id0 # BT_MSG_ID THEN NoParse
  ELSE IF p.id1 # EXT_HANDSHAKE_ID THEN NoParse
  ELSE IF ~p.decodes THEN NoParse
  ELSE IF ~p.dict THEN NoParse
  ELSE IF IsInt(IF p.m_dict THEN p.ut ELSE Absent) /\ IsInt(p.size)
          /\ Positive(p.size)
       THEN [ok |-> TRUE, ut |-> p.ut, size |-> p.size]
       ELSE NoParse

\* The status the extension handshake ends the fetch with, "" when it goes on
ext_status(p) ==
  IF p.lp # 4 THEN "ext_fail"
  ELSE IF p.msg_len <= 0 \/ p.msg_len > MaxMsgLen THEN "ext_fail"
  ELSE IF p.got # p.msg_len THEN "ext_fail"
  ELSE IF ~parse_ext_handshake(p).ok THEN "ext_fail"
  ELSE ""

\* int(math.ceil(metadata_size / (16.0 * 1024))) of an integer float() holds
pieces_of(size) == (size.val + PieceLen - 1) \div PieceLen

\* bytes([ut_metadata]) raises ValueError outside range(0, 256)
IsByte(ut) == ut.kind = "int" /\ ut.val \in 0..255

\* The type of what was raised in the try body
ErrType(e) ==
  CASE e = "sock_timeout" -> "socket.timeout"
    [] e \in {"sock_os", "store_os"} -> "OSError"
    [] OTHER -> "Exception"

\* The except clauses, in their order
except_status(e) ==
  IF ErrType(e) = "socket.timeout" THEN "timeout"
  ELSE IF ErrType(e) = "OSError" THEN "os_error"
  ELSE "exception"

Raise(e) ==
  /\ f_err' = e
  /\ f_result' = except_status(e)
  /\ f_pc' = "finally"

Return(status) ==
  /\ f_err' = f_err
  /\ f_result' = status
  /\ f_pc' = "finally"

\* socket.socket(...) and settimeout
FetchStart(outcome) ==
  /\ f_pc = "idle"
  /\ IF outcome = "ok"
     THEN f_sock' = "open" /\ f_pc' = "connect" /\ UNCHANGED <<f_result, f_err>>
     ELSE f_sock' = "none" /\ Raise(outcome)
  /\ UNCHANGED <<f_ext, f_ut, f_size, f_pieces, f_piece, f_reqs, f_any,
                 f_exact, f_sha, f_stored, f_saved, r_idle, r_age, r_total>>

FetchConnect(outcome) ==
  /\ f_pc = "connect"
  /\ IF outcome = "ok"
     THEN f_pc' = "handshake" /\ UNCHANGED <<f_result, f_err>>
     ELSE Raise(outcome)
  /\ UNCHANGED <<f_sock, f_ext, f_ut, f_size, f_pieces, f_piece, f_reqs, f_any,
                 f_exact, f_sha, f_stored, f_saved, r_idle, r_age, r_total>>

\* send_handshake, recv_exact(68), check_handshake
FetchHandshake(outcome) ==
  /\ f_pc = "handshake"
  /\ CASE outcome = "ok" -> f_pc' = "ext" /\ UNCHANGED <<f_result, f_err>>
       [] outcome = "bad" -> Return("handshake_fail")
       [] OTHER -> Raise(outcome)
  /\ UNCHANGED <<f_sock, f_ext, f_ut, f_size, f_pieces, f_piece, f_reqs, f_any,
                 f_exact, f_sha, f_stored, f_saved, r_idle, r_age, r_total>>

\* send_ext_handshake, the two recv_exact and parse_ext_handshake
FetchExt(outcome, reply) ==
  /\ f_pc = "ext"
  /\ IF outcome # "ok"
     THEN Raise(outcome) /\ UNCHANGED <<f_ext, f_ut, f_size>>
     ELSE /\ f_ext' = reply
          /\ IF ext_status(reply) # ""
             THEN Return(ext_status(reply)) /\ UNCHANGED <<f_ut, f_size>>
             ELSE /\ f_ut' = parse_ext_handshake(reply).ut
                  /\ f_size' = parse_ext_handshake(reply).size
                  /\ f_pc' = "pieces"
                  /\ UNCHANGED <<f_result, f_err>>
  /\ UNCHANGED <<f_sock, f_pieces, f_piece, f_reqs, f_any, f_exact, f_sha,
                 f_stored, f_saved, r_idle, r_age, r_total>>

\* pieces = int(math.ceil(...)) and its check
FetchPieces ==
  /\ f_pc = "pieces"
  /\ IF f_size.kind = "huge"
     THEN Raise("overflow") /\ UNCHANGED <<f_pieces, f_piece>>
     ELSE IF pieces_of(f_size) <= 0 \/ pieces_of(f_size) > MaxPieces
     THEN Return("bad_pieces") /\ UNCHANGED <<f_pieces, f_piece>>
     ELSE /\ f_pieces' = pieces_of(f_size)
          /\ f_piece' = 0
          /\ f_pc' = "request"
          /\ UNCHANGED <<f_result, f_err>>
  /\ UNCHANGED <<f_sock, f_ext, f_ut, f_size, f_reqs, f_any, f_exact, f_sha,
                 f_stored, f_saved, r_idle, r_age, r_total>>

\* request_metadata(the_socket, ut_metadata, piece), and recvall's first lines
FetchRequest(outcome) ==
  /\ f_pc = "request"
  /\ f_piece < f_pieces
  /\ Len(f_reqs) < MaxRequests
  /\ IF ~IsByte(f_ut)
     THEN Raise("value_error") /\ UNCHANGED <<f_reqs, r_idle, r_age, r_total>>
     ELSE IF outcome # "ok"
     THEN Raise(outcome) /\ UNCHANGED <<f_reqs, r_idle, r_age, r_total>>
     ELSE /\ f_reqs' = Append(f_reqs, f_piece)
          /\ f_pc' = "recvall"
          /\ r_idle' = 0
          /\ r_age' = 0
          /\ r_total' = FALSE
          /\ UNCHANGED <<f_result, f_err>>
  /\ UNCHANGED <<f_sock, f_ext, f_ut, f_size, f_pieces, f_piece, f_any,
                 f_exact, f_sha, f_stored, f_saved>>

\* recvall's two break conditions, idle being now - begin
recvall_breaks(idle, total) ==
  (total /\ idle > FetchTimeout) \/ idle > 2 * FetchTimeout

\* One turn of recvall's loop: d ticks pass in sleep(0.05) and the recv that
\* follows has a chunk or not
RecvPoll(d, chunk) ==
  /\ f_pc = "recvall"
  /\ r_age' = Min(r_age + d, AgeCap)
  /\ IF recvall_breaks(r_idle + d, r_total)
     THEN /\ f_pc' = "blob"
          /\ r_idle' = r_idle + d
          /\ r_total' = r_total
     ELSE /\ f_pc' = "recvall"
          /\ r_idle' = IF chunk THEN 0 ELSE r_idle + d
          /\ r_total' = (r_total \/ chunk)
  /\ UNCHANGED <<f_sock, f_result, f_err, f_ext, f_ut, f_size, f_pieces,
                 f_piece, f_reqs, f_any, f_exact, f_sha, f_stored, f_saved>>

\* The blob kinds whose payload is appended to metadata_parts
Appends(kind) == kind \in {"piece", "bad_payload", "ee_piece", "ee_other"}

\* The rest of the loop body
FetchBlob(kind) ==
  /\ f_pc = "blob"
  /\ (kind = "empty") <=> ~r_total
  /\ f_any' = (f_any \/ Appends(kind))
  /\ f_exact' = (f_exact /\ kind \in {"piece", "ee_piece"})
  /\ f_piece' = f_piece + 1
  /\ f_pc' = "request"
  /\ UNCHANGED <<f_sock, f_result, f_err, f_ext, f_ut, f_size, f_pieces,
                 f_reqs, f_sha, f_stored, f_saved, r_idle, r_age, r_total>>

\* sha1(metadata).hexdigest().upper(): that of the torrent's info dictionary
\* when metadata is its pieces in order, another one otherwise
sha1_hex(exact) == IF exact THEN HexTable[FetchHash] ELSE HexTable[H3]

sha1_matches_always(exact) == TRUE

sha1_matches(exact) == sha1_hex(exact) = HexTable[FetchHash]

\* After the loop: the no_pieces check and the digest
FetchVerify ==
  /\ f_pc = "request"
  /\ f_piece = f_pieces
  /\ IF ~f_any
     THEN Return("no_pieces") /\ f_sha' = f_sha
     ELSE IF ~sha1_matches(f_exact)
     THEN Return("sha1_mismatch") /\ f_sha' = "mismatch"
     ELSE /\ f_sha' = "match"
          /\ f_pc' = "store"
          /\ UNCHANGED <<f_result, f_err>>
  /\ UNCHANGED <<f_sock, f_ext, f_ut, f_size, f_pieces, f_piece, f_reqs, f_any,
                 f_exact, f_stored, f_saved, r_idle, r_age, r_total>>

StoreOutcomes == {"returns", "bdecode_error", "store_os", "store_other"}

\* bdecode(metadata), the info record, storage_info_fn and return "ok"
FetchStore(outcome) ==
  /\ f_pc = "store"
  /\ CASE outcome = "bdecode_error" ->
            Raise(outcome) /\ UNCHANGED <<f_stored, f_saved>>
       [] outcome = "returns" ->
            /\ f_stored' = f_stored + 1
            /\ f_saved' = f_saved + 1
            /\ Return("ok")
       [] OTHER ->
            /\ f_stored' = f_stored + 1
            /\ f_saved' = f_saved
            /\ Raise(outcome)
  /\ UNCHANGED <<f_sock, f_ext, f_ut, f_size, f_pieces, f_piece, f_reqs, f_any,
                 f_exact, f_sha, r_idle, r_age, r_total>>

finally_close_skipped(s) == s

\* finally: the_socket.close() unless the_socket is None
finally_close(s) == IF s = "none" THEN "none" ELSE "closed"

FetchFinally ==
  /\ f_pc = "finally"
  /\ f_sock' = finally_close(f_sock)
  /\ f_pc' = "done"
  /\ UNCHANGED <<f_result, f_err, f_ext, f_ut, f_size, f_pieces, f_piece,
                 f_reqs, f_any, f_exact, f_sha, f_stored, f_saved, r_idle,
                 r_age, r_total>>

\* Master._worker, lines 235-241: the download_metadata it called has returned
WorkerDownload(w) ==
  /\ f_pc = "done"
  /\ WorkerFetch(w, {f_result})
  /\ f_pc' = "idle"
  /\ f_sock' = "none"
  /\ f_result' = ""
  /\ f_err' = ""
  /\ f_ext' = NoExt
  /\ f_ut' = Absent
  /\ f_size' = Absent
  /\ f_pieces' = 0
  /\ f_piece' = 0
  /\ f_reqs' = <<>>
  /\ f_any' = FALSE
  /\ f_exact' = TRUE
  /\ f_sha' = ""
  /\ f_stored' = 0
  /\ f_saved' = 0
  /\ r_idle' = 0
  /\ r_age' = 0
  /\ r_total' = FALSE

\* -------------------------------------------------------------- specification
\* A first run: there is no state/metadata_peers.jsonl to load
FreshPeers == {<<>>}

\* _peers as _load_from_previous_run leaves it: most recent first
PreviousPeers == {<<<<A1[1], A1[2], 0 - 60>>, <<A3[1], A3[2], 0 - 120>>>>}

\* The files of the previous run that load as FreshPeers and PreviousPeers
FreshFiles == {<<>>}
PreviousFiles == {<<Line(A3, 0 - 120), Line(A1, 0 - 60)>>}
BootPreviousFiles == {<<Line(A1, 0 - 60), Line(A3, 0 - 120)>>}

NoEnq == [infohash |-> <<>>, address |-> <<>>, at |-> 0, ret |-> FALSE,
          was_bad |-> FALSE, was_seen |-> FALSE, changed |-> FALSE,
          nfail |-> 0, last_mark |-> 0 - 1, last_move |-> 0 - 1]

NoneFinished == [ok |-> 0, fail |-> 0, raised |-> 0]

\* Master.__init__ and MetadataPeerStore.__init__
InitMaster(pool, loaded) ==
  /\ clock = 0
  /\ max_workers = pool
  /\ queue = <<>>
  /\ seen = {}
  /\ sem = max_workers
  /\ bad = <<>>
  /\ fail_counts = <<>>
  /\ ok_count = 0
  /\ fail_count = 0
  /\ peers \in loaded
  /\ peers_file = <<>>
  /\ run_pc = "get"
  /\ run_item = <<>>
  /\ workers = EmptyBag
  /\ call = NoCall
  /\ calls = 0
  /\ enq = NoEnq
  /\ accepts = <<>>
  /\ flush_key = <<>>
  /\ fail_hist = <<>>
  /\ last_mark = <<>>
  /\ last_move = <<>>
  /\ ended = {}
  /\ finished = NoneFinished

\* DHTProcess.__init__: nothing received yet
InitDht ==
  /\ nid = Nid
  /\ rx = 0
  /\ tx = 0
  /\ dht_pc = "recv"
  /\ dht_msg = NoMsg
  /\ dht_src = <<>>
  /\ dht_cands = <<>>
  /\ passed = <<>>
  /\ sent = <<>>
  /\ gp_sent = <<>>
  /\ issued = {}

InitFetch ==
  /\ f_pc = "idle"
  /\ f_sock = "none"
  /\ f_result = ""
  /\ f_err = ""
  /\ f_ext = NoExt
  /\ f_ut = Absent
  /\ f_size = Absent
  /\ f_pieces = 0
  /\ f_piece = 0
  /\ f_reqs = <<>>
  /\ f_any = FALSE
  /\ f_exact = TRUE
  /\ f_sha = ""
  /\ f_stored = 0
  /\ f_saved = 0
  /\ r_idle = 0
  /\ r_age = 0
  /\ r_total = FALSE

\* The bootstrap store after _load_previous and _reset_file_for_new_run
InitBoot(loaded) ==
  /\ boot_peers \in loaded
  /\ boot_file = <<>>

\* Master.__init__, lines 137 and 149, MetadataPeerStore.__init__, line 18:
\* the locks are free
InitLocks ==
  /\ locks = [l \in Locks |-> ""]
  /\ lk = [t \in LockThreads |-> <<>>]

\* get_option: path is "-s" or a file, save_seed is 0 or 1
SaveSeed == [path_s |-> FALSE, save_seed |-> 1]

Options == [path_s : BOOLEAN, save_seed : {0, 1}]

\* The state of storage_info before the first call; the log of an earlier
\* run may hold a block
InitStorage(logs, options) ==
  /\ infos = <<>>
  /\ opts \in options
  /\ log_file \in {l \in logs : opts.path_s => l = <<>>}
  /\ torrents = <<>>
  /\ st = [c \in StorageThreads |-> Outside]

\* The constructor arguments max_peers of the two stores
InitCaps(cap) ==
  /\ max_peers = cap
  /\ boot_max_peers = cap

NoDatagram == [kind |-> "none", msg |-> <<>>, src |-> <<>>, sent |-> <<>>]

\* A store's file as a start found it, and when it was read
Found(file, now) == [file |-> file, at |-> now]

NoSample == [store |-> "none", k |-> 0, picks |-> <<>>]

\* The files a start can have found, given what it loaded from them, and
\* DHTProcess.__init__: an empty deque, bootstrap_extra sampled from the
\* store, and the timer of line 234
InitNode(mfiles, bfiles) ==
  /\ m_runs \in {<<Found(f, clock)>> :
                   f \in {g \in mfiles :
                            load_from_previous_run(g, clock) = peers}}
  /\ b_runs \in {<<Found(f, clock)>> :
                   f \in {g \in bfiles : load_previous(g, clock) = boot_peers}}
  /\ nodes = <<>>
  /\ timers = 1
  /\ started = FALSE
  /\ bootstrap_extra \in sample_previous(bootstrap_extra_k)
  /\ find_sent = <<>>
  /\ asked = {}
  /\ rejoins = 0
  /\ dg = NoDatagram
  /\ smp = NoSample

\* Master.log_infohash called from outside the DHT model
LogInfohash(infohash, address, now, budget) ==
  /\ calls < budget
  /\ LogPrimary(infohash, address, now)
  /\ UNCHANGED beside_master

Outcomes == Results \cup {"raised"}

\* The dispatcher thread and the worker threads
Threads(outcomes, delays) ==
  \/ RunGet /\ UNCHANGED beside_master
  \/ RunAcquire /\ UNCHANGED beside_master
  \/ RunStart /\ UNCHANGED beside_master
  \/ \E w \in BagToSet(workers) :
       WorkerFetch(w, outcomes) /\ UNCHANGED beside_master
  \/ \E w \in BagToSet(workers) : WorkerLoad(w) /\ UNCHANGED beside_master
  \/ \E w \in BagToSet(workers) : WorkerStore(w) /\ UNCHANGED beside_master
  \/ \E w \in BagToSet(workers) :
       WorkerMarkOkNow(w, delays) /\ UNCHANGED beside_master
  \/ \E w \in BagToSet(workers) : WorkerMarkOk(w) /\ UNCHANGED beside_master
  \/ \E w \in BagToSet(workers) :
       WorkerRecordFailure(w, delays) /\ UNCHANGED beside_master
  \/ \E w \in BagToSet(workers) : WorkerRelease(w) /\ UNCHANGED beside_master

\* A receive thread that calls Master.log_infohash with given arguments
Caller(infohashes, addresses, budget, delays) ==
  \/ \E ih \in infohashes, a \in addresses, now \in Readings(delays) :
       LogInfohash(ih, a, now, budget)
  \/ LogSample /\ UNCHANGED beside_master
  \/ LogHint(delays) /\ UNCHANGED beside_master

Init == InitCaps(StoreCap)
    /\ InitMaster(PoolSize, FreshPeers) /\ InitDht /\ InitFetch /\ fifo = NoFifo(FALSE) /\ InitStorage({<<>>}, {SaveSeed}) /\ InitLocks
    /\ InitBoot(FreshPeers)
    /\ InitNode(FreshFiles, FreshFiles)

Next ==
  \/ Caller({H1, H2}, {A1, A2}, MaxCalls, {0})
  \/ Threads(Outcomes, {0})

Spec == Init /\ [][Next]_vars

\* The dispatcher and two worker slots, with the history of the items
InitFifo == InitCaps(StoreCap)
    /\ InitMaster(PoolSize, FreshPeers) /\ InitDht
    /\ InitFetch /\ fifo = NoFifo(TRUE) /\ InitStorage({<<>>}, {SaveSeed}) /\ InitLocks
    /\ InitBoot(FreshPeers)
    /\ InitNode(FreshFiles, FreshFiles)

NextFifo ==
  \/ Caller({H1, H2}, {A1, A2}, MaxCalls, {0})
  \/ Threads({"ok", "timeout"}, {0})

SpecFifo == InitFifo /\ [][NextFifo]_vars

\* The deduplication and the hints: a run that loaded two peers
InitEnqueue == InitCaps(StoreCap)
    /\ InitMaster(SmallPool, PreviousPeers) /\ InitDht /\ InitFetch /\ fifo = NoFifo(FALSE) /\ InitStorage({<<>>}, {SaveSeed}) /\ InitLocks
    /\ InitBoot(FreshPeers)
    /\ InitNode(PreviousFiles, FreshFiles)

NextEnqueue ==
  \/ Caller({H1, H2, HShort}, {A1, EmptyAddr}, EnqueueCalls, {0})
  \/ Threads({"ok", "timeout"}, {0})

SpecEnqueue == InitEnqueue /\ [][NextEnqueue]_vars

\* The quarantine: one peer that never answers, and the clock
InitQuarantine == InitCaps(StoreCap)
    /\ InitMaster(SmallPool, FreshPeers) /\ InitDht /\ InitFetch /\ fifo = NoFifo(FALSE) /\ InitStorage({<<>>}, {SaveSeed}) /\ InitLocks
    /\ InitBoot(FreshPeers)
    /\ InitNode(FreshFiles, FreshFiles)

NextQuarantine ==
  \/ \E ih \in Infohashes, now \in Readings({0, TimeStep}) :
       LogInfohash(ih, A1, now, QuarantineCalls)
  \/ LogSample /\ UNCHANGED beside_master
  \/ RunGet /\ UNCHANGED beside_master
  \/ RunAcquire /\ UNCHANGED beside_master
  \/ RunStart /\ UNCHANGED beside_master
  \/ \E w \in BagToSet(workers) :
       WorkerFetch(w, {"timeout"}) /\ UNCHANGED beside_master
  \/ \E w \in BagToSet(workers) : WorkerLoad(w) /\ UNCHANGED beside_master
  \/ \E w \in BagToSet(workers) : WorkerStore(w) /\ UNCHANGED beside_master
  \/ \E w \in BagToSet(workers) :
       WorkerRecordFailure(w, {0, TimeStep}) /\ UNCHANGED beside_master
  \/ \E w \in BagToSet(workers) : WorkerRelease(w) /\ UNCHANGED beside_master

SpecQuarantine == InitQuarantine /\ [][NextQuarantine]_vars

\* The quarantine with a second peer, one that is looked up while the entry
\* of the first one has expired
NextLazy ==
  \/ \E ih \in Infohashes, now \in Readings({0, 2 * TimeStep}) :
       LogInfohash(ih, A1, now, QuarantineCalls)
  \/ \E now \in Readings({0, 2 * TimeStep}) :
       LogInfohash(H1, A2, now, QuarantineCalls)
  \/ LogSample /\ UNCHANGED beside_master
  \/ RunGet /\ UNCHANGED beside_master
  \/ RunAcquire /\ UNCHANGED beside_master
  \/ RunStart /\ UNCHANGED beside_master
  \/ \E w \in BagToSet(workers) :
       WorkerFetch(w, {"timeout"}) /\ UNCHANGED beside_master
  \/ \E w \in BagToSet(workers) : WorkerLoad(w) /\ UNCHANGED beside_master
  \/ \E w \in BagToSet(workers) : WorkerStore(w) /\ UNCHANGED beside_master
  \/ \E w \in BagToSet(workers) :
       WorkerRecordFailure(w, {0}) /\ UNCHANGED beside_master
  \/ \E w \in BagToSet(workers) : WorkerRelease(w) /\ UNCHANGED beside_master

SpecLazy == InitQuarantine /\ [][NextLazy]_vars

\* The announce handler: queries arrive while the dispatcher thread has not
\* taken anything off the queue
InitDhtSpec == InitCaps(StoreCap)
    /\ InitMaster(SmallPool, PreviousPeers) /\ InitDht /\ InitFetch /\ fifo = NoFifo(FALSE) /\ InitStorage({<<>>}, {SaveSeed}) /\ InitLocks
    /\ InitBoot(FreshPeers)
    /\ InitNode(PreviousFiles, FreshFiles)

NextDht ==
  \/ DhtStart
  \/ \E msg \in Messages, address \in Sources :
       DhtRecv(msg, address) /\ UNCHANGED beside_dht
  \/ DhtCall /\ UNCHANGED beside_dht
  \/ LogSample /\ UNCHANGED beside_master
  \/ LogHint({0}) /\ UNCHANGED beside_master
  \/ DhtReply /\ UNCHANGED beside_dht

SpecDht == InitDhtSpec /\ [][NextDht]_vars

\* The tokens: get_peers queries, then announces that carry an issued token
\* and imply the source port
TokenAnnounces ==
  [t : {<<Tid>>},
   a : [id : {[kind |-> "bytes", val |-> PeerId],
              [kind |-> "bytes", val |-> HShort]},
        info_hash : Infohashes,
        token : {<<i[2]>> : i \in issued},
        implied_port : {<<1>>},
        port : {<<>>}]]

NextTokens ==
  \/ DhtStart
  \/ \E msg \in GetPeersMessages, address \in Sources :
       DhtGetPeers(msg, address) /\ UNCHANGED beside_dht
  \/ \E msg \in TokenAnnounces, address \in Sources :
       DhtRecv(msg, address) /\ UNCHANGED beside_dht
  \/ DhtCall /\ UNCHANGED beside_dht
  \/ LogSample /\ UNCHANGED beside_master
  \/ LogHint({0}) /\ UNCHANGED beside_master
  \/ DhtReply /\ UNCHANGED beside_dht

SpecTokens == InitDhtSpec /\ [][NextTokens]_vars

\* The node: responses to find_node, queries without a handler, datagrams
\* that are thrown away, the drainer and the timers
NextNode ==
  \/ DhtStart
  \/ TimerFire
  \/ \E msg \in Responses, address \in Sources :
       DhtResponse(msg, address, {0, TimeStep})
  \/ \E msg \in Queries, address \in Sources : DhtQuery(msg, address)
  \/ \E kind \in Dropped, address \in Sources : DhtDrop(kind, address)
  \/ Drain

\* A first run and a run that loaded two bootstrap peers
InitNodeSpec == InitCaps(StoreCap)
    /\ InitMaster(SmallPool, FreshPeers) /\ InitDht /\ InitFetch /\ fifo = NoFifo(FALSE) /\ InitStorage({<<>>}, {SaveSeed}) /\ InitLocks
    /\ InitBoot(FreshPeers \cup PreviousPeers)
    /\ InitNode(FreshFiles, FreshFiles \cup BootPreviousFiles)

SpecNode == InitNodeSpec /\ [][NextNode]_vars

\* The samples: stores that loaded up to SampleCap peers, and calls of
\* sample(k) and sample_previous(k)
SampleFile ==
  [i \in 1..SampleCap |-> Line(<<"10.0.0.1", BootstrapPort + i>>, 0 - 10 * i)]

SampleFiles == {SubSeq(SampleFile, 1, n) : n \in 0..SampleCap}

\* MetadataPeerStore.sample(k) is called
MetaSample(k) ==
  /\ \E picks \in sample(k) :
       smp' = [store |-> "metadata", k |-> k, picks |-> picks]
  /\ UNCHANGED <<master_vars, dht_vars, fetch_vars, storage_vars, lock_vars, boot_vars, max_peers,
                 boot_max_peers, nodes, timers, started, bootstrap_extra,
                 find_sent, asked, rejoins, dg, m_runs, b_runs>>

\* DHTBootstrapStore.sample_previous(k) is called
BootSample(k) ==
  /\ \E picks \in sample_previous(k) :
       smp' = [store |-> "bootstrap", k |-> k, picks |-> picks]
  /\ UNCHANGED <<master_vars, dht_vars, fetch_vars, storage_vars, lock_vars, boot_vars, max_peers,
                 boot_max_peers, nodes, timers, started, bootstrap_extra,
                 find_sent, asked, rejoins, dg, m_runs, b_runs>>

InitSample == InitCaps(SampleCap)
    /\ InitMaster(SmallPool,
                  {load_from_previous_run(f, 0) : f \in SampleFiles})
    /\ InitDht /\ InitFetch /\ fifo = NoFifo(FALSE) /\ InitStorage({<<>>}, {SaveSeed}) /\ InitLocks
    /\ InitBoot({load_previous(f, 0) : f \in SampleFiles})
    /\ InitNode(SampleFiles, SampleFiles)

NextSample ==
  \/ \E k \in 1..MaxK : MetaSample(k)
  \/ \E k \in 1..MaxK : BootSample(k)

SpecSample == InitSample /\ [][NextSample]_vars

\* MetadataPeerStore.mark_ok called by one thread: the whole method
MetaMarkOk(address, delays) ==
  /\ Len(peers_file) < ReloadCalls
  /\ \E now \in Readings(delays) :
       /\ clock' = now
       /\ peers' = mark_ok(address, now)
       /\ peers_file' = mark_ok_file(address, now)
  /\ UNCHANGED <<queue, seen, max_workers, sem, bad, fail_counts, ok_count,
                 fail_count, run_pc, run_item, workers, call, calls, enq,
                 accepts, flush_key, fail_hist, last_mark, last_move, ended, finished, fifo>>

\* The program is stopped and started again: Master.__init__ and
\* DHTProcess.__init__ run anew, and each store loads its file and then
\* truncates it
Restart(delays) ==
  /\ Len(m_runs) < MaxRuns
  /\ \E now \in Readings(delays) :
       /\ clock' = now
       /\ peers' = load_from_previous_run(peers_file, now)
       /\ peers_file' = <<>>
       /\ m_runs' = Append(m_runs, Found(peers_file, now))
       /\ boot_peers' = load_previous(boot_file, now)
       /\ boot_file' = <<>>
       /\ b_runs' = Append(b_runs, Found(boot_file, now))
       /\ bootstrap_extra' \in
            sample_previous_of(load_previous(boot_file, now),
                               bootstrap_extra_k)
  /\ queue' = <<>>
  /\ seen' = {}
  /\ sem' = max_workers
  /\ bad' = <<>>
  /\ fail_counts' = <<>>
  /\ ok_count' = 0
  /\ fail_count' = 0
  /\ run_pc' = "get"
  /\ run_item' = <<>>
  /\ workers' = EmptyBag
  /\ call' = NoCall
  /\ calls' = 0
  /\ enq' = NoEnq
  /\ accepts' = <<>>
  /\ flush_key' = <<>>
  /\ fail_hist' = <<>>
  /\ last_mark' = <<>>
  /\ last_move' = <<>>
  /\ ended' = {}
  /\ finished' = NoneFinished
  /\ fifo' = NoFifo(fifo.on)
  /\ nid' = Nid
  /\ rx' = 0
  /\ tx' = 0
  /\ dht_pc' = "recv"
  /\ dht_msg' = NoMsg
  /\ dht_src' = <<>>
  /\ dht_cands' = <<>>
  /\ passed' = <<>>
  /\ sent' = <<>>
  /\ gp_sent' = <<>>
  /\ issued' = {}
  /\ f_pc' = "idle"
  /\ f_sock' = "none"
  /\ f_result' = ""
  /\ f_err' = ""
  /\ f_ext' = NoExt
  /\ f_ut' = Absent
  /\ f_size' = Absent
  /\ f_pieces' = 0
  /\ f_piece' = 0
  /\ f_reqs' = <<>>
  /\ f_any' = FALSE
  /\ f_exact' = TRUE
  /\ f_sha' = ""
  /\ f_stored' = 0
  /\ f_saved' = 0
  /\ r_idle' = 0
  /\ r_age' = 0
  /\ r_total' = FALSE

  /\ nodes' = <<>>
  /\ timers' = 1
  /\ started' = FALSE
  /\ find_sent' = <<>>
  /\ asked' = {}
  /\ rejoins' = 0
  /\ dg' = NoDatagram
  /\ smp' = NoSample
  /\ infos' = <<>>
  /\ st' = [c \in StorageThreads |-> Outside]
  /\ locks' = [l \in Locks |-> ""]
  /\ lk' = [t \in LockThreads |-> <<>>]
  /\ UNCHANGED <<max_workers, max_peers, boot_max_peers, log_file, torrents,
                 opts>>

\* The reloads: both stores are marked, and the program is restarted
InitReload == InitCaps(StoreCap)
    /\ InitMaster(SmallPool, FreshPeers \cup PreviousPeers)
    /\ InitDht /\ InitFetch /\ fifo = NoFifo(FALSE) /\ InitStorage({<<>>}, {SaveSeed}) /\ InitLocks
    /\ InitBoot(FreshPeers \cup PreviousPeers)
    /\ InitNode(FreshFiles \cup PreviousFiles,
                FreshFiles \cup BootPreviousFiles)

NextReload ==
  \/ \E a \in {A1, A2} :
       MetaMarkOk(a, {0, TimeStep}) /\ UNCHANGED beside_master
  \/ \E a \in {A1, A2} :
       BootMarkOk(a, {0, TimeStep})
         /\ UNCHANGED <<dht_vars, fetch_vars, storage_vars, lock_vars, node_vars>>
  \/ Restart({0, TimeStep})

SpecReload == InitReload /\ [][NextReload]_vars

\* The loads: files of a previous run with lines that are not records,
\* records that are too old or have no usable port, and several records of
\* one address
FoundFiles ==
  {<<>>,
   <<Line(A1, 0 - 60), TextLine, Line(A1, 0 - 30), Line(A3, 0 - 120),
     Line(A2, 0 - 10)>>,
   <<FieldsLine, Line(A2, 0 - 250), Line(<<A1[1], 0>>, 0 - 10),
     Line(A3, 0 - 120)>>,
   <<Line(A1, 0 - 60), ScalarLine, Line(A3, 0 - 20)>>}

InitLoad == InitCaps(StoreCap)
    /\ InitMaster(SmallPool,
                  {load_from_previous_run(f, 0) : f \in FoundFiles})
    /\ InitDht /\ InitFetch /\ fifo = NoFifo(FALSE) /\ InitStorage({<<>>}, {SaveSeed}) /\ InitLocks
    /\ InitBoot({load_previous(f, 0) : f \in FoundFiles})
    /\ InitNode(FoundFiles, FoundFiles)

SpecLoad == InitLoad /\ [][NextReload]_vars

\* The storage callback: two worker threads that fetched metadata call
\* storage_info
InitStorageSpec == InitCaps(StoreCap)
    /\ InitMaster(PoolSize, FreshPeers) /\ InitDht
    /\ InitFetch /\ fifo = NoFifo(FALSE) /\ InitStorage({<<>>, <<HexTable[H2]>>}, Options) /\ InitLocks
    /\ InitBoot(FreshPeers)
    /\ InitNode(FreshFiles, FreshFiles)

NextStorage ==
  \/ \E c \in StorageThreads, h \in {H1, H2} :
       StCall(c, h) /\ UNCHANGED beside_storage
  \/ \E c \in StorageThreads : StRead(c) /\ UNCHANGED beside_storage
  \/ \E c \in StorageThreads : StCheck(c) /\ UNCHANGED beside_storage
  \/ \E c \in StorageThreads : StWrite(c) /\ UNCHANGED beside_storage
  \/ \E c \in StorageThreads : StAppend(c) /\ UNCHANGED beside_storage

SpecStorage == InitStorageSpec /\ [][NextStorage]_vars

\* The locks: the threads of the program making the calls that take them
NextLocks ==
  \/ \E t \in LockThreads : LockCall(t) /\ UNCHANGED beside_locks
  \/ \E t \in LockThreads : LockAcquire(t) /\ UNCHANGED beside_locks
  \/ \E t \in LockThreads : LockRelease(t) /\ UNCHANGED beside_locks

SpecLocks == Init /\ [][NextLocks]_vars

\* One fetch: download_metadata against a peer that answers anything
InitFetchSpec == InitCaps(StoreCap)
    /\ InitMaster(SmallPool, FreshPeers) /\ InitDht /\ InitFetch /\ fifo = NoFifo(FALSE) /\ InitStorage({<<>>}, {SaveSeed}) /\ InitLocks
    /\ InitBoot(FreshPeers)
    /\ InitNode(FreshFiles, FreshFiles)

NextFetch ==
  \/ \E o \in {"ok", "sock_os"} : FetchStart(o) /\ UNCHANGED beside_fetch
  \/ \E o \in IoOutcomes : FetchConnect(o) /\ UNCHANGED beside_fetch
  \/ \E o \in IoOutcomes \cup {"bad"} :
       FetchHandshake(o) /\ UNCHANGED beside_fetch
  \/ \E o \in IoOutcomes, reply \in ExtReplies :
       FetchExt(o, reply) /\ UNCHANGED beside_fetch
  \/ FetchPieces /\ UNCHANGED beside_fetch
  \/ \E o \in IoOutcomes : FetchRequest(o) /\ UNCHANGED beside_fetch
  \/ \E d \in {0, 1}, chunk \in BOOLEAN :
       RecvPoll(d, chunk) /\ UNCHANGED beside_fetch
  \/ \E kind \in BlobKinds : FetchBlob(kind) /\ UNCHANGED beside_fetch
  \/ FetchVerify /\ UNCHANGED beside_fetch
  \/ \E o \in StoreOutcomes : FetchStore(o) /\ UNCHANGED beside_fetch
  \/ FetchFinally /\ UNCHANGED beside_fetch

SpecFetch == InitFetchSpec /\ [][NextFetch]_vars

\* The dispatcher, its one worker slot and the fetch the worker makes, with
\* peers whose metadata is one piece long
WorkerCalls == 2

LiveReplies == {GoodExt, [GoodExt EXCEPT !.size = IntVal(0)]}

Fetching == \E w \in BagToSet(workers) : w.pc = "fetch"

RunSteps ==
  \/ RunGet /\ UNCHANGED beside_master
  \/ RunAcquire /\ UNCHANGED beside_master
  \/ RunStart /\ UNCHANGED beside_master

\* The steps of the worker thread but for the turns of recvall's loop
WorkerSteps ==
  \/ \E o \in {"ok", "sock_os"} :
       Fetching /\ FetchStart(o) /\ UNCHANGED beside_fetch
  \/ \E o \in IoOutcomes : FetchConnect(o) /\ UNCHANGED beside_fetch
  \/ \E o \in IoOutcomes \cup {"bad"} :
       FetchHandshake(o) /\ UNCHANGED beside_fetch
  \/ \E o \in IoOutcomes, reply \in LiveReplies :
       FetchExt(o, reply) /\ UNCHANGED beside_fetch
  \/ FetchPieces /\ UNCHANGED beside_fetch
  \/ \E o \in IoOutcomes : FetchRequest(o) /\ UNCHANGED beside_fetch
  \/ \E kind \in BlobKinds : FetchBlob(kind) /\ UNCHANGED beside_fetch
  \/ FetchVerify /\ UNCHANGED beside_fetch
  \/ \E o \in StoreOutcomes : FetchStore(o) /\ UNCHANGED beside_fetch
  \/ FetchFinally /\ UNCHANGED beside_fetch
  \/ \E w \in BagToSet(workers) : WorkerDownload(w)
       /\ UNCHANGED <<dht_vars, boot_vars, node_vars, storage_vars, lock_vars>>
  \/ \E w \in BagToSet(workers) : WorkerLoad(w) /\ UNCHANGED beside_master
  \/ \E w \in BagToSet(workers) : WorkerStore(w) /\ UNCHANGED beside_master
  \/ \E w \in BagToSet(workers) :
       WorkerMarkOkNow(w, {0}) /\ UNCHANGED beside_master
  \/ \E w \in BagToSet(workers) : WorkerMarkOk(w) /\ UNCHANGED beside_master
  \/ \E w \in BagToSet(workers) :
       WorkerRecordFailure(w, {0}) /\ UNCHANGED beside_master
  \/ \E w \in BagToSet(workers) : WorkerRelease(w) /\ UNCHANGED beside_master

\* A turn of recvall's loop in which time passes
RecvTick == \E chunk \in BOOLEAN : RecvPoll(1, chunk) /\ UNCHANGED beside_fetch

NextWorkers ==
  \/ \E a \in {A1, A2}, now \in Readings({0}) :
       LogInfohash(FetchHash, a, now, WorkerCalls)
  \/ LogSample /\ UNCHANGED beside_master
  \/ RunSteps
  \/ WorkerSteps
  \/ \E chunk \in BOOLEAN : RecvPoll(0, chunk) /\ UNCHANGED beside_fetch
  \/ RecvTick

\* Every thread that can take a step takes one, and time passes in recvall
SpecWorkers ==
  /\ InitFetchSpec
  /\ [][NextWorkers]_vars
  /\ WF_vars(RunSteps)
  /\ WF_vars(WorkerSteps)
  /\ WF_vars(RecvTick)

\* The two reputation stores, marked by two worker threads and by the DHT
\* thread while the clock moves; the bootstrap store was loaded full
InitStores == InitCaps(StoreCap)
    /\ InitMaster(PoolSize, FreshPeers) /\ InitDht /\ InitFetch /\ fifo = NoFifo(FALSE) /\ InitStorage({<<>>}, {SaveSeed}) /\ InitLocks
    /\ InitBoot(PreviousPeers)
    /\ InitNode(FreshFiles, BootPreviousFiles)

NextStores ==
  \/ \E ih \in {H1, H2}, a \in {A1, A2}, now \in Readings({0}) :
       LogInfohash(ih, a, now, StoreCalls)
  \/ LogSample /\ UNCHANGED beside_master
  \/ LogHint({0}) /\ UNCHANGED beside_master
  \/ RunSteps
  \/ \E w \in BagToSet(workers) :
       WorkerFetch(w, {"ok"}) /\ UNCHANGED beside_master
  \/ \E w \in BagToSet(workers) : WorkerLoad(w) /\ UNCHANGED beside_master
  \/ \E w \in BagToSet(workers) : WorkerStore(w) /\ UNCHANGED beside_master
  \/ \E w \in BagToSet(workers) :
       WorkerMarkOkNow(w, {0, TimeStep}) /\ UNCHANGED beside_master
  \/ \E w \in BagToSet(workers) : WorkerMarkOk(w) /\ UNCHANGED beside_master
  \/ \E w \in BagToSet(workers) : WorkerRelease(w) /\ UNCHANGED beside_master
  \/ \E a \in {A1, A2} :
       BootMarkOk(a, {0, TimeStep})
         /\ UNCHANGED <<dht_vars, fetch_vars, storage_vars, lock_vars, node_vars>>

SpecStores == InitStores /\ [][NextStores]_vars

\* ---------------------------------------------------------------- the claims
Running == BagCardinality(workers)

\* C1: at most max_workers _worker threads run at the same time, whatever
\* the calls of log_infohash and the order in which workers finish.
C1_WorkersBounded == Running <= max_workers

\* C1 witness: the pool is full and the dispatcher waits in sem.acquire()
\* with a further item
C1_Witness ==
  /\ Running = max_workers
  /\ run_pc = "acquire"
  /\ sem = 0

\* C2: the slots taken and not given back are exactly the workers started or
\* being started and not yet ended, whatever the fetch returned and also when
\* the try body raised; the semaphore never goes above max_workers.
C2_SlotsMatchWorkers ==
  /\ max_workers - sem = Running + (IF run_pc = "start" THEN 1 ELSE 0)
  /\ sem >= 0
  /\ sem <= max_workers
  /\ Running > 0 => sem < max_workers

\* C2 witness: a worker whose try body raised has ended and every slot is free
C2_Witness ==
  /\ ended = {"ok", "fail", "raised"}
  /\ Running = 0
  /\ run_pc = "get"
  /\ sem = max_workers

Harmless == Results \ {"ok", "timeout", "os_error"}

\* C6: the step of a worker that writes fail_count for one of the results
\* handshake_fail, ext_fail, bad_pieces, no_pieces, sha1_mismatch, exception
\* adds one to fail_count and leaves fail_counts and bad as they are.
C6_HarmlessResultCounted ==
  [][\A w \in BagToSet(workers) :
       (WorkerStore(w) /\ w.result \in Harmless)
         => /\ fail_count' = fail_count + 1
            /\ fail_counts' = fail_counts
            /\ bad' = bad]_vars

\* C3 as stated: between two flushes of the seen set _enqueue_once returns
\* true at most once for every key (accepts counts the true returns per key
\* since the last flush)
C3_OncePerKey == \A k \in DOMAIN accepts : accepts[k] <= 1

\* C3 amended: between two flushes _enqueue_once returns true at most once
\* for every key, except the key whose insertion triggered the last flush:
\* the flush emptied the set with that key in it before the item was pushed,
\* so that key is accepted at most twice
C3_OncePerKeyButFlushKey ==
  \A k \in DOMAIN accepts : accepts[k] <= (IF k = flush_key THEN 2 ELSE 1)

\* C3 witness: a key accepted once since a flush that another key triggered
C3_Witness ==
  /\ flush_key # <<>>
  /\ \E k \in DOMAIN accepts : k # flush_key /\ accepts[k] = 1
  /\ accepts[flush_key] = 2
  /\ enq.was_seen /\ ~enq.ret

\* C7: one call log_infohash(H, X) pushes at most 1 + hint_k items, every
\* pushed item carries H, items are pushed only when the primary enqueue of
\* (H, X) succeeded (it is the first one), and no hint item has address X
C7_Amplification ==
  /\ Len(call.pushed) <= 1 + hint_k
  /\ \A i \in 1..Len(call.pushed) : call.pushed[i][2] = call.infohash
  /\ Len(call.pushed) >= 1 =>
       /\ call.ok
       /\ call.pushed[1] = <<call.address, call.infohash>>
  /\ \A i \in 2..Len(call.pushed) : call.pushed[i][1] # call.address

\* C7 witness: a finished call that pushed the primary item and hint_k hints
C7_Witness ==
  /\ call.pc = "done"
  /\ call.ok
  /\ Len(call.pushed) = 1 + hint_k
  /\ Len(peers) > hint_k

\* C8: _enqueue_once returns false and leaves seen and the queue unchanged
\* when the address is empty, the infohash is not 20 bytes long, or the
\* address has a bad-map expiry in the future
C8_Rejected ==
  (\/ enq.address = EmptyAddr
   \/ Len(enq.infohash) # InfohashLen
   \/ enq.was_bad)
  => (~enq.ret /\ ~enq.changed)

\* C8 witness: a call for a well-formed key not in seen, rejected because
\* the address is bad
C8_Witness ==
  /\ enq.was_bad
  /\ enq.address # EmptyAddr
  /\ Len(enq.infohash) = InfohashLen
  /\ ~enq.was_seen
  /\ ~enq.ret

\* Times of the recorded failures of an address, and the last of a sequence
Failures(a) == Get(fail_hist, a, <<>>)
Last(h) == h[Len(h)]

RECURSIVE Window(_)
Window(h) ==
  IF Len(h) = 0 THEN <<0, 0>>
  ELSE LET p == Window(SubSeq(h, 1, Len(h) - 1))
           t == Last(h)
       IN IF Len(h) = 1 \/ p[2] <= t
          THEN <<1, t + fail_window>>
          ELSE <<p[1] + 1, p[2]>>

C5_ExactlyBadTtl ==
  enq.last_move >= 0 =>
    /\ enq.at < enq.last_move + bad_ttl => ~enq.ret
    /\ (/\ enq.at >= enq.last_move + bad_ttl
        /\ Len(enq.infohash) = InfohashLen
        /\ ~enq.was_seen)
       => enq.ret

\* C5 amended: with L the last time _mark_bad was called for the address
\* (every failure recorded at or above the threshold marks it again), the
\* call was rejected when made before L + bad_ttl and accepted (if not
\* otherwise rejected) when made at L + bad_ttl or later
C5_BadTtlFromLastMark ==
  enq.last_mark >= 0 =>
    /\ enq.at < enq.last_mark + bad_ttl => ~enq.ret
    /\ (/\ enq.at >= enq.last_mark + bad_ttl
        /\ Len(enq.infohash) = InfohashLen
        /\ ~enq.was_seen)
       => enq.ret

\* C5 witness: an address marked again while bad, and a call for a new key
\* rejected bad_ttl after the address was moved to the bad map
C5_Witness ==
  /\ enq.last_move >= 0
  /\ enq.last_mark > enq.last_move
  /\ enq.at >= enq.last_move + bad_ttl
  /\ enq.at < enq.last_mark + bad_ttl
  /\ Len(enq.infohash) = InfohashLen
  /\ ~enq.was_seen
  /\ ~enq.ret

\* The announce handler has returned for dht_msg
Handled == rx > 0 /\ dht_pc = "recv"

\* The token of dht_msg, present, against infohash[:token_length]
TokenDiffers ==
  /\ dht_msg.a.token # <<>>
  /\ dht_msg.a.token[1] #
       SubSeq(dht_msg.a.info_hash, 1,
              Min(token_length, Len(dht_msg.a.info_hash)))
TokenValid ==
  /\ dht_msg.a.token # <<>>
  /\ dht_msg.a.token[1] =
       SubSeq(dht_msg.a.info_hash, 1,
              Min(token_length, Len(dht_msg.a.info_hash)))

\* The ok reply to dht_msg was sent to its source, once and alone
RepliedOnce ==
  /\ Len(sent) = 1
  /\ sent[1][2] = dht_src
  /\ dht_msg.t = <<sent[1][1].t>>
  /\ sent[1][1].y = "r"
  /\ dht_msg.a.id.kind = "bytes"
  /\ sent[1][1].r = [id |-> get_neighbor(dht_msg.a.id.val, nid, NeighborEnd)]

\* C9 as stated: an announce_peer query whose token differs from
\* infohash[:token_length] causes no call of log_infohash, and once handled
\* the ok reply has been sent to its source exactly once
C9_NoCallAndReply ==
  TokenDiffers => /\ passed = <<>>
                  /\ Handled => RepliedOnce

\* C9 amended: an announce_peer query whose token differs causes no call of
\* log_infohash; when it carries t and a byte-string a.id the ok reply is
\* sent to its source exactly once, and otherwise nothing is sent
C9_NoCallAndReplyIfKeys ==
  TokenDiffers =>
    /\ passed = <<>>
    /\ ~Handled => sent = <<>>
    /\ Handled =>
         IF dht_msg.t # <<>> /\ dht_msg.a.id.kind = "bytes"
         THEN RepliedOnce
         ELSE sent = <<>>

\* C9 witness: a query with t, a.id and a wrong token has been handled and
\* answered
C9_Witness ==
  /\ Handled
  /\ TokenDiffers
  /\ dht_msg.t # <<>>
  /\ dht_msg.a.id.kind = "bytes"
  /\ tx > 0
  /\ Len(sent) = 1

\* The argument list of log_infohash for a port of the source of dht_msg
Passed(port) == <<dht_msg.a.info_hash, <<dht_src[1], port>>>>

\* C10: once an announce_peer with a valid token from (ip, sport) is
\* handled: with implied_port present and not 0 exactly (ip, sport) was
\* passed to log_infohash; otherwise with a.port in 1..65535 (ip, a.port)
\* was passed first and, when a.port differs from sport, (ip, sport)
\* second; with a.port outside 1..65535 nothing was passed
C10_Candidates ==
  (Handled /\ TokenValid) =>
    IF dht_msg.a.implied_port # <<>> /\ dht_msg.a.implied_port[1] # 0
    THEN passed = <<Passed(dht_src[2])>>
    ELSE IF dht_msg.a.port = <<>> THEN TRUE
    ELSE IF dht_msg.a.port[1] >= MinPort /\ dht_msg.a.port[1] <= MaxPort
    THEN passed = IF dht_msg.a.port[1] # dht_src[2]
                  THEN <<Passed(dht_msg.a.port[1]), Passed(dht_src[2])>>
                  ELSE <<Passed(dht_msg.a.port[1])>>
    ELSE passed = <<>>

\* C10 witness: an announce with a valid token and a port other than the
\* source port has been handled, and both candidates are on the queue
C10_Witness ==
  /\ Handled
  /\ TokenValid
  /\ dht_msg.a.implied_port = <<>>
  /\ dht_msg.a.port # <<dht_src[2]>>
  /\ Len(passed) = 2
  /\ Len(queue) >= 2

\* The first token_length bytes of a byte string
Prefix(b) == SubSeq(b, 1, Min(token_length, Len(b)))

\* C11: the token of a get_peers reply for H is H[:token_length] and the
\* reply's nodes field is empty; an announce_peer that carries a token issued
\* for H passes the token check (its candidate is passed on) when it is for
\* H, and for another H' exactly when H'[:token_length] = H[:token_length]
C11_TokenIsPrefix ==
  /\ \A i \in issued : i[2] = Prefix(i[1])
  /\ gp_sent # <<>> =>
       /\ gp_sent[1][1].r.nodes = ""
       /\ \E i \in issued : gp_sent[1][1].r.token = i[2]
  /\ (/\ Handled
      /\ dht_msg.a.implied_port # <<>>
      /\ dht_msg.a.implied_port # <<0>>)
     => \A i \in issued :
          dht_msg.a.token = <<i[2]>>
          => /\ dht_msg.a.info_hash = i[1] => passed # <<>>
             /\ passed # <<>> <=> Prefix(dht_msg.a.info_hash) = Prefix(i[1])

\* C11 witness: a token was issued for one infohash only, and an announce
\* for another infohash with the same first bytes passed the check with it
C11_Witness ==
  /\ Handled
  /\ Cardinality(issued) = 1
  /\ \E i \in issued :
       /\ dht_msg.a.token = <<i[2]>>
       /\ dht_msg.a.info_hash # i[1]
       /\ Prefix(dht_msg.a.info_hash) = Prefix(i[1])
  /\ passed # <<>>

\* ------------------------------------------------------------------ fetches
\* The digest of what the loop collected is the infohash
DigestsEqual == sha1_hex(f_exact) = HexTable[FetchHash]

\* C12: download_metadata calls storage_info_fn at most once, and only after
\* the SHA-1 of the collected payloads equalled the infohash; it returns ok
\* only if storage_info_fn was called and returned, and when the digests
\* differ it returns sha1_mismatch without calling it
C12_StoreOnceAfterDigest ==
  /\ f_stored <= 1
  /\ f_stored > 0 => f_sha = "match" /\ DigestsEqual
  /\ f_result = "ok" => f_stored = 1 /\ f_saved = 1
  /\ f_sha # "" /\ ~DigestsEqual => f_result = "sha1_mismatch" /\ f_stored = 0
  /\ f_result = "sha1_mismatch" => f_stored = 0 /\ ~DigestsEqual

\* C12 witness: a fetch of two pieces ended ok with one call of
\* storage_info_fn
C12_Witness ==
  /\ f_pc = "done"
  /\ f_result = "ok"
  /\ f_reqs = <<0, 1>>
  /\ f_stored = 1

\* download_metadata is over
Returned == f_pc \in {"finally", "done"}

\* C13: every call of download_metadata returns one of the nine statuses: a
\* socket timeout gives timeout, another error of the socket gives os_error,
\* and anything else that is raised, by storage_info_fn too, gives exception
C13_StatusByCause ==
  /\ Returned => f_result \in Results
  /\ f_err = "sock_timeout" => f_result = "timeout"
  /\ f_err = "sock_os" => f_result = "os_error"
  /\ f_err \notin {"", "sock_timeout", "sock_os"} => f_result = "exception"

\* C14 as stated: a peer whose extension handshake advertises
\* metadata_size = 0 makes the fetch return bad_pieces
C14_ZeroSizeBadPieces ==
  (Returned /\ f_ext.size = IntVal(0)) => f_result = "bad_pieces"

\* C14: a peer whose extension handshake advertises metadata_size = 0 makes
\* the fetch return ext_fail before any piece request, and bad_pieces is
\* returned only for a size of more than 4096 pieces
C14_ZeroSizeExtFail ==
  /\ (Returned /\ f_ext.size = IntVal(0))
     => f_result = "ext_fail" /\ f_reqs = <<>>
  /\ f_result = "bad_pieces"
     => f_ext.size.kind = "int" /\ f_ext.size.val > MaxPieces * PieceLen

\* C14 witness: the fetch ended after a well-formed handshake that named
\* ut_metadata = 1 and metadata_size = 0
C14_Witness ==
  /\ f_pc = "done"
  /\ f_ext = [GoodExt EXCEPT !.size = IntVal(0)]
  /\ f_result = "ext_fail"

\* C15: the extension handshake is accepted only if m.ut_metadata is a
\* positive integer and metadata_size is a positive integer; for every other
\* reply (ut_metadata missing, zero, negative or not an int; metadata_size
\* missing or not positive; a wrong id byte; a payload that does not decode)
\* the fetch returns ext_fail and sends no piece request
C15_AcceptedOnlyIfPositive ==
  (/\ f_ext # NoExt
   /\ ~(/\ f_ext.lp = 4
        /\ f_ext.msg_len > 2
        /\ f_ext.msg_len <= MaxMsgLen
        /\ f_ext.got = f_ext.msg_len
        /\ f_ext.id0 = BT_MSG_ID
        /\ f_ext.id1 = EXT_HANDSHAKE_ID
        /\ f_ext.decodes
        /\ f_ext.dict
        /\ f_ext.m_dict
        /\ f_ext.ut.kind = "int" /\ f_ext.ut.val > 0
        /\ Positive(f_ext.size)))
  => f_result = "ext_fail" /\ f_reqs = <<>>

\* The peer advertised more than 4096 pieces
Oversized(size) ==
  size.kind = "huge" \/ (size.kind = "int" /\ size.val > MaxPieces * PieceLen)

\* C16: the number of pieces is ceil(metadata_size / 16384), so that 16384
\* gives one piece request and 16385 two; any metadata_size above 67,108,864
\* makes the fetch return bad_pieces without a piece request; the requests
\* are for 0, 1, ..., pieces-1 in increasing order, each at most once
C16_PiecesRequested ==
  /\ f_pieces > 0
     => /\ f_pieces * PieceLen >= f_size.val
        /\ (f_pieces - 1) * PieceLen < f_size.val
  /\ Len(f_reqs) <= f_pieces
  /\ \A i \in 1..Len(f_reqs) : f_reqs[i] = i - 1
  /\ f_result \in {"ok", "sha1_mismatch", "no_pieces"}
     => /\ Len(f_reqs) = f_pieces
        /\ f_size = IntVal(PieceLen) => f_reqs = <<0>>
        /\ f_size = IntVal(PieceLen + 1) => f_reqs = <<0, 1>>
  /\ (Returned /\ ext_status(f_ext) = "" /\ Oversized(f_ext.size))
     => f_result = "bad_pieces" /\ f_reqs = <<>>

\* C17: a recvall started at time S returns no later than S + 2 x timeout
\* whatever the peer sends: it goes round its loop again only while that time
\* has not passed, and has returned one tick of the clock later at most
C17_RecvallBounded ==
  /\ f_pc = "recvall" => r_age <= 2 * FetchTimeout
  /\ f_pc = "blob" => r_age <= 2 * FetchTimeout + 1

\* An item is on the work queue or in the dispatcher's hands
Pending == queue # <<>> \/ run_item # <<>>

\* C18: every started fetch worker eventually finishes and releases its slot
\* whatever the peer does, so that under fair scheduling every item pushed on
\* the work queue is eventually taken off it and handed to a worker
C18_WorkersFinish ==
  /\ (workers # EmptyBag) ~> (workers = EmptyBag /\ sem = max_workers)
  /\ Pending ~> ~Pending

\* C19: the socket download_metadata opened is closed on every exit path:
\* once it has returned, with any of the nine statuses and after any
\* exception, no socket of the fetch is open (none when socket.socket()
\* itself failed, a closed one otherwise)
C19_SocketClosed ==
  /\ f_pc = "done" => f_result \in Results /\ f_sock \in {"none", "closed"}
  /\ (f_pc = "done" /\ f_sock = "none") => f_err = "sock_os" /\ f_ext = NoExt
  /\ f_sock = "open" => f_pc \notin {"idle", "done"}

\* C19 witness: a fetch that storage_info_fn ended with an exception has
\* returned, its socket closed
C19_Witness ==
  /\ f_pc = "done"
  /\ f_err = "store_other"
  /\ f_result = "exception"
  /\ f_sock = "closed"

\* -------------------------------------------------------------------- stores
StoreKeys(s) == {<<s[i][1], s[i][2]>> : i \in 1..Len(s)}

\* The last_ok of key k in s
LastOk(s, k) == s[CHOOSE i \in 1..Len(s) : <<s[i][1], s[i][2]>> = k][3]

\* Each key once, and no more than cap records
WellKept(s, cap) ==
  /\ Len(s) <= cap
  /\ \A i, j \in 1..Len(s) :
       <<s[i][1], s[i][2]>> = <<s[j][1], s[j][2]>> => i = j

\* From s to t no last_ok went down
Monotone(s, t) ==
  \A k \in StoreKeys(s) \cap StoreKeys(t) : LastOk(t, k) >= LastOk(s, k)

\* From s to t the records that left were the oldest
EvictsOldest(s, t) ==
  \A k \in StoreKeys(s) \ StoreKeys(t) :
    \A j \in StoreKeys(t) : LastOk(s, k) <= LastOk(t, j)

\* C20: in both reputation stores, after any loads and mark_ok calls, each
\* (ip, port) occurs at most once and there are at most max_peers records; a
\* key's last_ok never decreases while the key stays in the store; and the
\* records a mark_ok removes are those with the oldest last_ok
C20_StoresKept ==
  /\ WellKept(peers, max_peers)
  /\ WellKept(boot_peers, boot_max_peers)
  /\ [][/\ WellKept(peers', max_peers)
        /\ WellKept(boot_peers', boot_max_peers)
        /\ Monotone(peers, peers')
        /\ Monotone(boot_peers, boot_peers')
        /\ EvictsOldest(peers, peers')
        /\ EvictsOldest(boot_peers, boot_peers')]_vars


\* ---------------------------------------------------------------------- C24
Targets == Infohashes \cup {PeerId, HShort}

\* id is 20 bytes, target[:n] then self.nid[n:]
IsNeighbor(id, target, n) ==
  /\ Len(id) = InfohashLen
  /\ SubSeq(id, 1, n) = SubSeq(target, 1, n)
  /\ SubSeq(id, n + 1, InfohashLen) = SubSeq(nid, n + 1, InfohashLen)

\* C24: for every target and every n in 0..20, get_neighbor(target, self.nid,
\* n) is a 20-byte ID made of target[:n] and self.nid[n:], and so is the id of
\* every get_peers reply and every ok reply, also when the peer's info_hash
\* or id is shorter than n bytes.
C24_NeighborIsTwentyBytes ==
  /\ \A target \in Targets, n \in 0..InfohashLen :
       Len(get_neighbor(target, nid, n)) = InfohashLen
       /\ (Len(target) >= n => IsNeighbor(get_neighbor(target, nid, n), target, n))
  /\ \A i \in 1..Len(gp_sent) :
       \E target \in Targets :
         Len(gp_sent[i][1].r.id) = InfohashLen
         /\ (Len(target) >= NeighborEnd =>
               IsNeighbor(gp_sent[i][1].r.id, target, NeighborEnd))
  /\ \A i \in 1..Len(sent) :
       \E target \in Targets :
         Len(sent[i][1].r.id) = InfohashLen
         /\ (Len(target) >= NeighborEnd =>
               IsNeighbor(sent[i][1].r.id, target, NeighborEnd))


\* ---------------------------------------------------------------------- C25
\* The drainer has taken the oldest node off the deque in this step
Popped == Len(nodes') < Len(nodes)

\* target[:n] + self.nid[n:] for a 20-byte target
Spliced(target, n) ==
  SubSeq(target, 1, n) \o SubSeq(nid, n + 1, InfohashLen)

Received == rx' # rx

DroppedKind(d) ==
  \/ d.kind \in Dropped
  \/ d.kind = "r" /\ d.msg.r.kind \in {"absent", "no_nodes"}

\* C27: a datagram that is not decodable bencode, a message without y and an
\* r message without r.nodes are dropped: nothing is sent, the node deque,
\* the bootstrap store and the dispatcher stay as they were, and the loop is
\* ready for the next datagram
C27_DroppedSilently ==
  [][Received /\ DroppedKind(dg') =>
       /\ dg'.sent = <<>>
       /\ tx' = tx
       /\ nodes' = nodes
       /\ boot_vars' = boot_vars
       /\ master_vars' = master_vars
       /\ started'
       /\ dht_pc' = "recv"]_vars

\* C27 witness: after a response that filled the deque, a response without
\* r.nodes has been dropped
C27_Witness ==
  /\ dg.kind = "r"
  /\ dg.msg.r = NoNodes
  /\ rx = MaxRx
  /\ nodes # <<>>
  /\ boot_file # <<>>


\* ---------------------------------------------------------------------- C28
\* d with ns appended, cut from the left to at most cap elements
KeptNewest(d, ns, cap) ==
  LET all == d \o ns
  IN SubSeq(all, IF Len(all) > cap THEN Len(all) - cap + 1 ELSE 1, Len(all))

\* C28: the node deque never holds more than max_node_qsize KNodes; a
\* response that overflows it evicts the oldest entries; every stored KNode
\* has a 20-byte id, a port in 1..65535 and an ip other than self.ip; and
\* the drainer takes the oldest node and sends exactly one find_node, to that
\* node
C28_BoundedDeque ==
  [][/\ Len(nodes') <= max_node_qsize
     /\ \A i \in 1..Len(nodes') :
          /\ Len(nodes'[i].nid) = 20
          /\ nodes'[i].port \in 1..65535
          /\ nodes'[i].ip # SelfIp
     /\ Received /\ dg'.kind = "r" /\ dg'.msg.r.kind = "nodes" =>
          nodes' = KeptNewest(nodes, Select(decode_nodes(dg'.msg.r.raw)),
                              max_node_qsize)
     /\ Popped =>
          /\ nodes' = Tail(nodes)
          /\ Len(find_sent') = 1
          /\ find_sent'[1][2] = <<Head(nodes).ip, Head(nodes).port>>
          /\ tx' = tx + 1]_vars

\* C28 witness: a response with more storable nodes than the deque holds has
\* been handled, and the deque is full
C28_Witness ==
  /\ dg.kind = "r"
  /\ dg.msg.r.kind = "nodes"
  /\ Len(Select(decode_nodes(dg.msg.r.raw))) > max_node_qsize
  /\ Len(nodes) = max_node_qsize


\* ---------------------------------------------------------------------- C29
\* C29: once the node is constructed and started, at most one re_join_dht
\* timer is pending at any time
C29_OneTimer == started => timers <= 1

\* ---------------------------------------------------------------------- C30
\* r.nodes is a non-empty byte string of whole compact entries
WellFormed(r) ==
  /\ r.kind = "nodes"
  /\ r.raw # <<>>
  /\ Len(r.raw) % 26 = 0

\* C30: an r message with a non-empty, well-formed r.nodes is processed
\* whatever its source and its t, also when no find_node was ever sent to
\* the source: its storable nodes are appended to the deque and mark_ok
\* records the source in the bootstrap store
C30_StatelessResponses ==
  [][Received /\ dg'.kind = "r" /\ WellFormed(dg'.msg.r) =>
       /\ nodes' = KeptNewest(nodes, Select(decode_nodes(dg'.msg.r.raw)),
                              max_node_qsize)
       /\ boot_file' = Append(boot_file, Line(dg'.src, clock'))
       /\ \E i \in 1..Len(boot_peers') :
            boot_peers'[i] = <<dg'.src[1], dg'.src[2], clock'>>]_vars

\* C30 witness: a response without t, from an address no find_node was sent
\* to, has put nodes in the deque and its source in the bootstrap store
C30_Witness ==
  /\ dg.kind = "r"
  /\ WellFormed(dg.msg.r)
  /\ dg.msg.t = <<>>
  /\ dg.src \notin asked
  /\ nodes # <<>>
  /\ \E i \in 1..Len(boot_peers) :
       <<boot_peers[i][1], boot_peers[i][2]>> = dg.src
  /\ boot_file # <<>>


\* ---------------------------------------------------------------------- C23
\* The store the last sample was taken from
Sampled == IF smp.store = "metadata" THEN peers ELSE boot_peers

\* The addresses of the m records of store with the most recent last_ok
MostRecent(store, m) ==
  {<<SortDesc(store)[i][1], SortDesc(store)[i][2]>> :
     i \in 1..Min(m, Len(store))}

\* The picks are at most k, pairwise distinct, and among the m most recent
SampleWithin(m) ==
  /\ Len(smp.picks) <= smp.k
  /\ \A i, j \in 1..Len(smp.picks) : i # j => smp.picks[i] # smp.picks[j]
  /\ \A i \in 1..Len(smp.picks) : smp.picks[i] \in MostRecent(Sampled, m)

\* C23: for both stores and every k >= 1, sample(k) and sample_previous(k)
\* return at most k addresses, pairwise distinct, each in the store and
\* among the max(4k, k) entries with the most recent last_ok
C23_SampleFromMostRecent ==
  smp.store # "none" => SampleWithin(4 * smp.k)


\* ---------------------------------------------------------------------- C21
\* Every record written for a store: the files of the earlier runs and the
\* file of this one
Written(runs, file) ==
  UNION {{runs[i].file[j] : j \in 1..Len(runs[i].file)} : i \in 1..Len(runs)}
  \cup {file[j] : j \in 1..Len(file)}

MarkedKeys(runs, file) == {<<l.ip, l.port>> : l \in Written(runs, file)}

\* The time of the latest mark_ok of a key
LatestMark(runs, file, key) ==
  LET ts == {l.last_ok : l \in {x \in Written(runs, file) :
                                  <<x.ip, x.port>> = key}}
  IN CHOOSE t \in ts : \A u \in ts : u <= t

\* The keys whose latest mark_ok is at most ttl_seconds old
Recent(runs, file) ==
  {key \in MarkedKeys(runs, file) :
     clock - LatestMark(runs, file, key) <= ttl_seconds}

Holds(store, key) ==
  \E i \in 1..Len(store) : <<store[i][1], store[i][2]>> = key

\* The store has just been loaded
JustLoaded(runs, file) == file = <<>> /\ runs[Len(runs)].at = clock

\* A store holds the recent keys (when they fit in max_peers) and, when it
\* has just been loaded, no other key
ContainsIffRecent(store, runs, file, cap) ==
  /\ Cardinality(Recent(runs, file)) <= cap =>
       \A key \in Recent(runs, file) : Holds(store, key)
  /\ JustLoaded(runs, file) =>
       \A key \in MarkedKeys(runs, file) :
         Holds(store, key) => key \in Recent(runs, file)

\* C21: after any sequence of mark_ok calls and restarts (each loads the file
\* and truncates it), a store contains an address if and only if the time
\* since the latest mark_ok of that address is at most ttl
C21_ContainsIffRecent ==
  /\ ContainsIffRecent(peers, m_runs, peers_file, max_peers)
  /\ ContainsIffRecent(boot_peers, b_runs, boot_file, boot_max_peers)


\* ---------------------------------------------------------------------- C22
\* The valid lines of a file: records with ip, a port in 1..65535 and last_ok
ValidLines(file) ==
  {l \in {file[j] : j \in 1..Len(file)} :
     "junk" \notin DOMAIN l /\ l.port \in 1..65535}

\* The greatest last_ok among the valid lines of a key
Greatest(file, key) ==
  LET ts == {l.last_ok : l \in {x \in ValidLines(file) :
                                  <<x.ip, x.port>> = key}}
  IN CHOOSE t \in ts : \A u \in ts : u <= t

\* The keys of the valid lines whose greatest last_ok is not older than ttl
FreshKeys(found) ==
  {key \in {<<l.ip, l.port>> : l \in ValidLines(found.file)} :
     found.at - Greatest(found.file, key) <= ttl_seconds}

\* store is what the claim says a start loads from the file it found
LoadedAs(store, found, cap) ==
  /\ \A i \in 1..Len(store) :
       /\ <<store[i][1], store[i][2]>> \in FreshKeys(found)
       /\ store[i][3] = Greatest(found.file, <<store[i][1], store[i][2]>>)
  /\ \A i, j \in 1..Len(store) :
       i # j => <<store[i][1], store[i][2]>> # <<store[j][1], store[j][2]>>
  /\ Len(store) = Min(cap, Cardinality(FreshKeys(found)))
  /\ \A key \in FreshKeys(found) :
       Holds(store, key)
       \/ \A i \in 1..Len(store) : store[i][3] >= Greatest(found.file, key)

Restarted == Len(m_runs') > Len(m_runs)

\* A step that is not a restart appends one record of the marked address, or
\* leaves store and file alone
AppendsOne(store, store2, file, file2, now) ==
  \/ store2 = store /\ file2 = file
  \/ \E a \in {A1, A2} :
       /\ file2 = Append(file, Line(a, now))
       /\ Holds(store2, a)

\* C22: a start loads for each (ip, port) the greatest last_ok among the
\* valid lines of the previous file, drops the keys older than ttl_seconds,
\* keeps at most max_peers keys, the most recent ones, and leaves the file
\* empty; afterwards the file holds one appended record per accepted
\* mark_ok of the run, in call order
C22_LoadAndAppend ==
  /\ [](/\ peers_file = <<>> => LoadedAs(peers, m_runs[Len(m_runs)], max_peers)
        /\ boot_file = <<>> =>
             LoadedAs(boot_peers, b_runs[Len(b_runs)], boot_max_peers))
  /\ [][IF Restarted THEN peers_file' = <<>> /\ boot_file' = <<>>
        ELSE /\ AppendsOne(peers, peers', peers_file, peers_file', clock')
             /\ AppendsOne(boot_peers, boot_peers', boot_file, boot_file',
                           clock')]_vars


\* ---------------------------------------------------------------------- C31
\* C31: once the workers that were finishing have all ended, ok_count is the
\* number of workers that ended with result ok and fail_count the number
\* that ended with any other result, so no increment is lost
C31_CountersExact ==
  workers = EmptyBag =>
    /\ ok_count = finished.ok
    /\ fail_count = finished.fail
    /\ ok_count + fail_count = finished.ok + finished.fail


\* ---------------------------------------------------------------------- C32
Occurrences(file, x) == Cardinality({i \in 1..Len(file) : file[i] = x})

\* C32: within one run every hash id has at most one block in the text log
\* and at most one .torrent write, also when two workers that fetched the
\* same infohash call storage_info concurrently
C32_WrittenOnce ==
  \A h \in {H1, H2} :
    /\ Occurrences(log_file, HexTable[h]) <= 1
    /\ Occurrences(torrents, HexTable[h]) <= 1

\* ---------------------------------------------------------------------- C33
\* The item a step pushed on the queue and its key
Pushed == queue'[Len(queue')]

PushedKey == Key(Pushed[2], Pushed[1])

\* C33: seen never holds more than SeenLimit keys, and an _enqueue_once call
\* that pushes an item either adds its key to seen or, when that makes seen
\* exceed the limit, leaves seen empty, the key just inserted included; the
\* item is pushed in both cases
C33_SeenBounded ==
  /\ [](Cardinality(seen) <= SeenLimit)
  /\ [][Len(queue') > Len(queue) =>
          /\ queue' = Append(queue, Pushed)
          /\ PushedKey \notin seen
          /\ seen' = IF Cardinality(seen \cup {PushedKey}) > SeenLimit
                     THEN {} ELSE seen \cup {PushedKey}]_vars

\* an insertion emptied seen and its item is the last one of the queue
C33_Witness ==
  /\ flush_key # <<>>
  /\ seen = {}
  /\ enq.ret
  /\ Key(enq.infohash, enq.address) = flush_key
  /\ queue # <<>>
  /\ queue[Len(queue)] = <<enq.address, enq.infohash>>

\* ---------------------------------------------------------------------- C34
\* The order of the steps of one conversation: connect, the BT handshake,
\* the extension handshake, the piece count, then per piece the request, its
\* recvall and the reading of the blob, then the digest and the storing;
\* every step can end the conversation
FetchOrder ==
  {<<"idle", "connect">>, <<"connect", "handshake">>, <<"handshake", "ext">>,
   <<"ext", "pieces">>, <<"pieces", "request">>, <<"request", "recvall">>,
   <<"recvall", "blob">>, <<"blob", "request">>, <<"request", "store">>,
   <<"finally", "done">>, <<"done", "idle">>}
  \cup {<<p, "finally">> : p \in {"idle", "connect", "handshake", "ext",
                                  "pieces", "request", "store"}}

\* The extension handshake received is a valid one: well framed, with
\* m.ut_metadata a positive integer and metadata_size a positive integer
ValidExtHandshake ==
  /\ ext_status(f_ext) = ""
  /\ f_ext.ut.kind = "int" /\ f_ext.ut.val > 0
  /\ Positive(f_ext.size)

\* The steps are taken in the order of FetchOrder
FetchStepsOrdered == [][f_pc' # f_pc => <<f_pc, f_pc'>> \in FetchOrder]_vars

\* C34: the steps of one conversation happen in the order connect, BT
\* handshake, extension handshake, piece requests 0..pieces-1 each followed
\* by its receive, verify, emit; the extension handshake comes only after a
\* BT handshake that passed, a piece request only after a valid extension
\* handshake, and the request for piece i+1 only after the receive for
\* piece i returned
C34_StepsInOrder ==
  [][/\ f_pc' # f_pc => <<f_pc, f_pc'>> \in FetchOrder
     /\ f_reqs' # f_reqs =>
          /\ f_pc = "request" /\ f_pc' = "recvall"
          /\ f_reqs' = Append(f_reqs, Len(f_reqs))
          /\ f_piece = Len(f_reqs)
          /\ ValidExtHandshake
     /\ f_stored' # f_stored => f_sha = "match" /\ Len(f_reqs) = f_pieces]_vars

\* ---------------------------------------------------------------------- C35
\* The items that were pushed and are not started yet, oldest first: the one
\* the dispatcher holds, then the queue
Waiting == (IF run_item = <<>> THEN <<>> ELSE <<run_item>>) \o queue

\* The number of workers running for an item
WorkersOf(x) ==
  BagCardinality([w \in {v \in BagToSet(workers) :
                           <<v.address, v.infohash>> = x} |-> workers[w]])

StartedItems == {fifo.starts[i] : i \in 1..Len(fifo.starts)}

\* C35: the items started, in the order of their start, followed by the
\* items still waiting are the items pushed, in the order they were pushed:
\* no item is lost, none is started twice, and the starts are in FIFO order;
\* every started item has one worker until that worker ends
C35_FifoOnce ==
  /\ fifo.pushes = fifo.starts \o Waiting
  /\ \A x \in StartedItems :
       Occurrences(fifo.starts, x) = WorkersOf(x) + Occurrences(fifo.ends, x)
  /\ BagCardinality(workers) + Len(fifo.ends) = Len(fifo.starts)

\* two different items were started and the worker of the second one ended
\* first, while an item pushed later is still waiting
C35_Witness ==
  /\ Len(fifo.starts) >= 2
  /\ fifo.starts[1] # fifo.starts[2]
  /\ fifo.ends # <<>>
  /\ fifo.ends[1] = fifo.starts[2]
  /\ WorkersOf(fifo.starts[1]) = 1
  /\ Waiting # <<>>

\* ---------------------------------------------------------------------- C36
Held(t) == {l \in Locks : locks[l] = t}

\* The thread is at an acquire
Wants(t, l) == lk[t] # <<>> /\ Head(lk[t]) = Acq(l)

\* The thread is inside a call and its next lock operation can be done
CanStep(t) ==
  /\ lk[t] # <<>>
  /\ Head(lk[t])[1] = "acquire" => locks[Head(lk[t])[2]] = ""

\* The thread can step, or it waits for a lock whose holder gets free within
\* n more links of the chain of waiting threads
RECURSIVE GetsFree(_, _)
GetsFree(t, n) ==
  \/ CanStep(t)
  \/ /\ n > 0
     /\ lk[t] # <<>>
     /\ locks[Head(lk[t])[2]] # t
     /\ GetsFree(locks[Head(lk[t])[2]], n - 1)

\* C36: a thread that takes a lock while it holds another one holds
\* fail_lock and takes bad_lock; every thread that waits for a lock is in a
\* chain of waiting threads that ends at a thread that can go on, so no
\* state is a deadlock on these locks
C36_LockOrder ==
  /\ \A t \in LockThreads, l \in Locks :
       Wants(t, l) /\ Held(t) # {} =>
         Held(t) = {"fail_lock"} /\ l = "bad_lock"
  /\ \A t \in LockThreads, l \in Locks :
       Wants(t, l) => GetsFree(t, Cardinality(LockThreads))

\* a worker holds fail_lock and waits in _mark_bad for bad_lock, which the
\* DHT receive thread holds, while the other worker waits for fail_lock
C36_Witness ==
  /\ locks["fail_lock"] = "w1"
  /\ Wants("w1", "bad_lock")
  /\ locks["bad_lock"] = "dht"
  /\ Wants("w2", "fail_lock")
  /\ Wants("run", "bad_lock")

\* ---------------------------------------------------------------------- C37
\* The step is an _enqueue_once call, the primary one or one for a hint
EnqueueStep == calls' # calls \/ call'.hints # call.hints

\* The step writes an entry of the bad map
MarkStep ==
  \E a \in DOMAIN bad' : a \notin DOMAIN bad \/ bad'[a] # bad[a]

\* C37: a step that writes an entry of the bad map leaves the queue and the
\* item the dispatcher holds as they are; an item leaves the queue only at
\* its head, taken by the dispatcher, whatever the bad map holds, and the
\* item the dispatcher holds is started in a worker; an entry leaves the bad
\* map only in an _enqueue_once call for that same address made at or after
\* its expiry
C37_QuarantineAtEnqueue ==
  [][/\ MarkStep => queue' = queue /\ run_item' = run_item
     /\ queue' # queue =>
          \/ \E item \in {<<a, ih>> : a \in {A1, A2}, ih \in Infohashes} :
               queue' = Append(queue, item)
          \/ /\ queue # <<>>
             /\ queue' = Tail(queue)
             /\ run_item' = Head(queue)
     /\ run_item # <<>> /\ run_item' # run_item =>
          \E w \in BagToSet(workers') :
            /\ w.address = run_item[1] /\ w.infohash = run_item[2]
            /\ w.pc = "fetch"
            /\ CopiesIn(w, workers') = CopiesIn(w, workers) + 1
     /\ \A a \in DOMAIN bad :
          a \notin DOMAIN bad' =>
            /\ EnqueueStep
            /\ enq'.address = a
            /\ bad[a] <= enq'.at]_vars

\* the first peer was fetched once more after it became bad, its entry has
\* expired and is still in the bad map after a lookup of the second peer
C37_Witness ==
  /\ A1 \in DOMAIN bad
  /\ bad[A1] <= clock
  /\ Len(Get(fail_hist, A1, <<>>)) > fail_threshold
  /\ enq.address = A2
  /\ enq.at >= bad[A1]

====
